---- MODULE Spec2Model ----
(***************************************************************************)
(* Model of the game discovery and execution engine of the Linux Proton    *)
(* game launcher: the process launch registry (runner.ts), the scan        *)
(* orchestrator and reconciler (api/scan.ts) and the library routes that   *)
(* write the games table (api/games.ts, api/settings.ts), and of its pure   *)
(* functions: the directory scanner (scanner.ts), the executable ranking   *)
(* (exe-detector.ts) and the launch environment (env-builder.ts).          *)
(*                                                                         *)
(* Granularity.  Node runs every handler to its next `await` without       *)
(* interruption, so an action is the code between two awaits.  A database  *)
(* statement takes effect in the step that executes it.                    *)
(***************************************************************************)
EXTENDS Integers, Sequences, FiniteSets, TLC

VARIABLES
  registry,    \* runner.ts `registry`: Map gameId -> {gameId, pid, startedAt, process}
  children,    \* every ChildProcess spawned so far, by handle
  now,         \* the value Date.now() returns
  prefixDirs,  \* gameIds whose winePrefix directory exists on disk
  ev,          \* the operation performed by the last step, its outcome and,
               \* when it ran handleExit, the _onExit call it made
  scanState,   \* scan.ts `scanState`
  games,       \* the rows of the games table, by id
  nextId,      \* ids handed out so far (uuidv4 never repeats)
  scanPathsSetting, \* settings.scanPaths
  runs,        \* the runScan() calls in flight, with their local variables
  wsLog,       \* scan notifications published since the last accepted scan
  unlinkJob,   \* PUT /api/settings between its select and its update
  opCount,     \* library write requests served and scan runs ended so far
  artwork,     \* the fetchArtworkForNewGames() calls in flight
  args,        \* the arguments of the function applied by the last function call
  result,      \* what that call returned
  steamDisk,   \* the Steam library folders that the version detection reads
  launchApi,   \* launch.ts: the route handlers and exit callbacks in flight and
               \* the launch_status notifications published so far
  pad          \* frontend controller.js: the polling flags, the listeners
               \* registered, the page's visibility and the gamepads connected

launchVars == <<registry, children, now, prefixDirs>>
scanVars == <<scanState, games, nextId, scanPathsSetting, runs, wsLog, unlinkJob, opCount>>
callVars == <<args, result, steamDisk, launchApi, pad>>
vars == <<registry, children, now, prefixDirs, ev,
          scanState, games, nextId, scanPathsSetting, runs, wsLog, unlinkJob, opCount,
          artwork, args, result, steamDisk, launchApi, pad>>

-----------------------------------------------------------------------------
(* Bounds *)

MaxSpawn == 2      \* child processes spawned in one behaviour
MaxClock == 1      \* distinct readings of Date.now()

GameIds == {"g1", "g2"}
Handles == 1..MaxSpawn

NoEv == [op |-> "init"]
NoCall == [fn |-> "none"]
NoSteam == [roots |-> << >>, ops |-> 0]
NoApi == [jobs |-> << >>, log |-> << >>, requests |-> 0]
NoPad == [polling |-> FALSE, started |-> FALSE, connectedCount |-> 0,
          listeners |-> 0, hidden |-> FALSE, pads |-> 0]

-----------------------------------------------------------------------------
(* Process launch registry: runner.ts *)

RegistryHas(reg, g) == g \in DOMAIN reg

RegistrySet(reg, g, entry) ==
  [x \in (DOMAIN reg) \cup {g} |-> IF x = g THEN entry ELSE reg[x]]

RegistryDelete(reg, g) ==
  [x \in (DOMAIN reg) \ {g} |-> reg[x]]

GetStatus(reg, g) == IF RegistryHas(reg, g) THEN "running" ELSE "stopped"

GetRunningGame(reg, g) ==
  IF RegistryHas(reg, g)
    THEN [gameId |-> reg[g].gameId, pid |-> reg[g].pid, startedAt |-> reg[g].startedAt]
    ELSE [gameId |-> "undefined"]

\* A launch() that lost its first check.
AlreadyRunningUnchecked(reg, g) == FALSE

\* The guard that opens launch(): the game already has a registry entry.
AlreadyRunning(reg, g) == RegistryHas(reg, g)

\* A handleExit that calls _onExit before it deletes the registry entry.
HandleExitCallbackFirst(reg, kids, h, code, sig) ==
  LET entry == kids[h]
  IN [registry |-> RegistryDelete(reg, entry.gameId),
      children |-> [kids EXCEPT ![h].exitHandled = @ + 1],
      call     |-> [gameId       |-> entry.gameId,
                    exitCode     |-> code,
                    signal       |-> sig,
                    startedAt    |-> entry.startedAt,
                    process      |-> h,
                    statusAtCall |-> GetStatus(reg, entry.gameId),
                    relaunchBlocked |-> AlreadyRunning(reg, entry.gameId)]]

\* handleExit of the launch that spawned child h: the closure's entry gives
\* gameId and startedAt; the registry key is deleted, then _onExit is called.
\* `call` is what the callback receives, plus what getStatus would answer
\* inside it and whether a launch() made inside it would be refused.
HandleExit(reg, kids, h, code, sig) ==
  LET entry == kids[h]
      reg1  == RegistryDelete(reg, entry.gameId)
  IN [registry |-> reg1,
      children |-> [kids EXCEPT ![h].exitHandled = @ + 1],
      call     |-> [gameId       |-> entry.gameId,
                    exitCode     |-> code,
                    signal       |-> sig,
                    startedAt    |-> entry.startedAt,
                    process      |-> h,
                    statusAtCall |-> GetStatus(reg1, entry.gameId),
                    relaunchBlocked |-> AlreadyRunning(reg1, entry.gameId)]]

-----------------------------------------------------------------------------
(* Library scanning: the disk, scanner.ts scanPaths, scan.ts scanState *)

MaxGames == 3      \* rows ever inserted into the games table
MaxLibOps == 1     \* library write requests served in one behaviour
MaxScans == 2      \* requests in one behaviour: scan runs that end and library writes

Null == << >>      \* SQL NULL / JS null for a path or a result

\* String.prototype.toLowerCase on the names that occur.
Lower(n) ==
  CASE n = "Foo" -> "foo"
    [] n = "Bar" -> "bar"
    [] OTHER -> n

\* A path that keeps the slashes it ends with.
KeepTrailingSlashes(p) == p

RECURSIVE StripTrailingSlashes(_)
\* p.replace(/\/+$/, ""): a path is the sequence of its segments, and one
\* that ends with slashes has an empty segment for each of them.
StripTrailingSlashes(p) ==
  IF p # << >> /\ p[Len(p)] = "" THEN StripTrailingSlashes(SubSeq(p, 1, Len(p) - 1))
  ELSE p

\* path.join(scanPath, name): the normalised scanPath, then the name.
Join(scanPath, name) == SelectSeq(scanPath, LAMBDA seg : seg # "") \o <<name>>

\* The directories under each scan root, in readdirSync order, and whether
\* the directory's top-ranked executable has a score >= 0.
DiskDirs(scanPath) ==
  LET root == SelectSeq(scanPath, LAMBDA seg : seg # "") IN
  IF root = <<"a">> THEN << [name |-> "foo", accepted |-> TRUE],
                            [name |-> "tools", accepted |-> FALSE] >>
  ELSE IF root = <<"b">> THEN << [name |-> "Foo", accepted |-> TRUE] >>
  ELSE << >>

\* listGameDirs(scanPath): join(scanPath, e) for every child directory.
ListGameDirs(root) ==
  [i \in 1..Len(DiskDirs(root)) |->
     [name |-> DiskDirs(root)[i].name,
      rootPath |-> Join(root, DiskDirs(root)[i].name),
      accepted |-> DiskDirs(root)[i].accepted]]

RECURSIVE GameDirs(_)
\* scanPaths: gameDirs.push(...listGameDirs(root)) for each root in turn.
GameDirs(paths) ==
  IF paths = << >> THEN << >>
  ELSE ListGameDirs(Head(paths)) \o GameDirs(Tail(paths))

IsAccepted(d) == d.accepted

\* The ScannedGame pushed for an accepted directory.
ScannedOf(d) ==
  [name |-> d.name, rootPath |-> d.rootPath, exePath |-> d.rootPath \o <<"game.exe">>]

\* scanPaths: the results after the first n directories were processed.
ResultsAfter(dirs, n) ==
  LET acc == SelectSeq(SubSeq(dirs, 1, n), IsAccepted)
  IN [j \in 1..Len(acc) |-> ScannedOf(acc[j])]

\* scanPaths: the event passed to onProgress for directory i.
ProgressEvent(dirs, i) ==
  [current |-> dirs[i].name, found |-> Len(ResultsAfter(dirs, i - 1)), total |-> Len(dirs)]

\* detectExeInDirectory(rootPath): the best executable, or Null.
DetectExeInDirectory(rootPath) ==
  LET hits == {r \in {<<"a">>, <<"b">>} :
                 \E i \in 1..Len(ListGameDirs(r)) :
                    /\ ListGameDirs(r)[i].rootPath = rootPath
                    /\ ListGameDirs(r)[i].accepted}
  IN IF hits = {} THEN Null ELSE rootPath \o <<"game.exe">>

ZeroProgress == [current |-> "", found |-> 0, total |-> 0]

ScanStateInit ==
  [status |-> "idle", progress |-> ZeroProgress, lastRun |-> Null,
   lastResults |-> Null, lastError |-> Null]

NoJob == [active |-> FALSE]

\* An unlinked row, as a scan insert followed by a soft-unlink leaves it.
UnlinkedRow(id, name) ==
  [name |-> name, rootPath |-> Null, exePath |-> Null, winePrefix |-> id]

\* The games table found at startup: empty, or rows that earlier scans of
\* /a and /b inserted and a later change of scanPaths soft-unlinked.
InitLibraries ==
  { << >>,
    << UnlinkedRow(1, "Foo") >>,
    << UnlinkedRow(1, "foo"), UnlinkedRow(2, "Foo") >> }

\* The values of settings.scanPaths that occur.
SettingPaths == {<< >>, <<<<"a">>, <<"b">>>>}

\* The scanPaths of a PUT /api/settings body: those, and /a/ written with
\* the slash at its end.
PutPaths == SettingPaths \cup {<<<<"a", "">>>>}

Init ==
  /\ registry = << >>
  /\ children = << >>
  /\ now = 0
  /\ prefixDirs = {}
  /\ ev = NoEv
  /\ scanState = ScanStateInit
  /\ games \in InitLibraries
  /\ nextId = Len(games)
  /\ scanPathsSetting \in SettingPaths
  /\ runs = << >>
  /\ wsLog = << >>
  /\ unlinkJob = NoJob
  /\ artwork = << >>
  /\ steamDisk = NoSteam
  /\ launchApi = NoApi
  /\ pad = NoPad
  /\ opCount = [lib |-> 0, scans |-> 0]
  /\ args = NoCall
  /\ result = NoCall

\* A launch() that records the child before it looks at child.pid.
LaunchRecordsBeforePidCheck(g, protonOk, pidOk) ==
  LET inputs == [op |-> "launch", gameId |-> g]
      h == Len(children) + 1
  IN
  IF AlreadyRunning(registry, g) THEN
    /\ ev' = inputs @@ [result |-> "AlreadyRunning"]
    /\ UNCHANGED <<launchVars, scanVars, callVars, artwork>>
  ELSE IF ~protonOk THEN
    /\ prefixDirs' = prefixDirs \cup {g}
    /\ ev' = inputs @@ [result |-> "RuntimeNotFound"]
    /\ UNCHANGED <<registry, children, now, scanVars, callVars, artwork>>
  ELSE
    /\ h \in Handles
    /\ prefixDirs' = prefixDirs \cup {g}
    /\ children' = Append(children,
                          [gameId |-> g, pid |-> h, startedAt |-> now,
                           state |-> IF pidOk THEN "live" ELSE "exited",
                           signalled |-> FALSE, exitHandled |-> IF pidOk THEN 0 ELSE 1])
    /\ registry' = RegistrySet(registry, g,
                               [gameId |-> g, pid |-> h, startedAt |-> now, process |-> h])
    /\ ev' = inputs @@ [result |-> IF pidOk THEN "ok" ELSE "SpawnFailed"]
    /\ UNCHANGED <<now, scanVars, callVars, artwork>>

\* launch(gameId, config).  protonOk: the proton script exists under
\* config.protonPath; pidOk: spawn returned a child with a pid.
Launch(g, protonOk, pidOk) ==
  LET inputs == [op |-> "launch", gameId |-> g]
      h == Len(children) + 1
  IN
  IF AlreadyRunning(registry, g) THEN
    /\ ev' = inputs @@ [result |-> "AlreadyRunning"]
    /\ UNCHANGED <<launchVars, scanVars, callVars, artwork>>
  ELSE IF ~protonOk THEN
    /\ prefixDirs' = prefixDirs \cup {g}
    /\ ev' = inputs @@ [result |-> "RuntimeNotFound"]
    /\ UNCHANGED <<registry, children, now, scanVars, callVars, artwork>>
  ELSE IF ~pidOk THEN
    /\ prefixDirs' = prefixDirs \cup {g}
    /\ ev' = inputs @@ [result |-> "SpawnFailed"]
    /\ UNCHANGED <<registry, children, now, scanVars, callVars, artwork>>
  ELSE
    /\ h \in Handles
    /\ prefixDirs' = prefixDirs \cup {g}
    /\ children' = Append(children,
                          [gameId |-> g, pid |-> h, startedAt |-> now,
                           state |-> "live", signalled |-> FALSE, exitHandled |-> 0])
    /\ registry' = RegistrySet(registry, g,
                               [gameId |-> g, pid |-> h, startedAt |-> now, process |-> h])
    /\ ev' = inputs @@ [result |-> "ok"]
    /\ UNCHANGED <<now, scanVars, callVars, artwork>>

\* kill(gameId).  ChildProcess.kill("SIGTERM") either delivers the signal or,
\* when the signal cannot be delivered, emits 'error' on the child before it
\* returns; the 'error' listener of launch() then runs handleExit(null, null)
\* although the process is still alive.
Kill(g, delivered) ==
  LET inputs == [op |-> "kill", gameId |-> g] IN
  IF ~RegistryHas(registry, g) THEN
    /\ ev' = inputs @@ [result |-> "NotRunning"]
    /\ UNCHANGED <<launchVars, scanVars, callVars, artwork>>
  ELSE
    LET h == registry[g].process IN
    IF delivered THEN
      /\ children' = [children EXCEPT ![h].signalled = TRUE]
      /\ ev' = inputs @@ [result |-> "signalled", process |-> h, sent |-> <<"SIGTERM">>]
      /\ UNCHANGED <<registry, now, prefixDirs, scanVars, callVars, artwork>>
    ELSE
      LET r == HandleExit(registry, children, h, "null", "null") IN
      /\ registry' = r.registry
      /\ children' = r.children
      /\ ev' = inputs @@ [result |-> "error-event", process |-> h, sent |-> << >>,
                          call |-> r.call]
      /\ UNCHANGED <<now, prefixDirs, scanVars, callVars, artwork>>

ExitReports == {[code |-> "0", signal |-> "null"],
                [code |-> "null", signal |-> "SIGTERM"]}

\* The child's 'exit' event: the process has ended; Node emits it once.
ChildExit(h, rep) ==
  /\ h \in DOMAIN children
  /\ children[h].state = "live"
  /\ LET kids == [children EXCEPT ![h].state = "exited"]
         r == HandleExit(registry, kids, h, rep.code, rep.signal)
     IN /\ registry' = r.registry
        /\ children' = r.children
        /\ ev' = [op |-> "exit", gameId |-> children[h].gameId, process |-> h,
                  call |-> r.call]
  /\ UNCHANGED <<now, prefixDirs, scanVars, callVars, artwork>>

\* Time passes between two handlers.
Tick ==
  /\ now < MaxClock
  /\ now' = now + 1
  /\ ev' = [op |-> "tick"]
  /\ UNCHANGED <<registry, children, prefixDirs, scanVars, callVars, artwork>>

LaunchStep == \E g \in GameIds, protonOk \in BOOLEAN, pidOk \in BOOLEAN : Launch(g, protonOk, pidOk)
KillStep == \E g \in GameIds, delivered \in BOOLEAN : Kill(g, delivered)
ChildExitStep == \E h \in Handles, rep \in ExitReports : ChildExit(h, rep)

NextLaunch == LaunchStep \/ KillStep \/ ChildExitStep \/ Tick

\* The runner does not read the library or the settings: it starts with
\* both empty.
InitLaunch == Init /\ games = << >> /\ scanPathsSetting = << >>

SpecLaunch == InitLaunch /\ [][NextLaunch]_vars

-----------------------------------------------------------------------------
(* Scan orchestrator and reconciler: scan.ts *)

\* A POST /api/scan that lost its single-flight check.
ScanInProgressUnchecked(st) == FALSE

\* POST /api/scan: the single-flight check.
ScanInProgress(st) == st.status = "running"

RemoveRun(k) == [j \in 1..(Len(runs) - 1) |-> IF j < k THEN runs[j] ELSE runs[j + 1]]

MaxOf(S) == CHOOSE x \in S : \A y \in S : y <= x

\* persistScannedGames: unlinkedByName, built from the rows with rootPath
\* NULL in table order; a later row with the same lower-cased name replaces
\* an earlier one.
UnlinkedByName(rows) ==
  LET un == {id \in DOMAIN rows : rows[id].rootPath = Null}
  IN [key \in {Lower(rows[id].name) : id \in un} |->
        MaxOf({id \in un : Lower(rows[id].name) = key})]

MapDelete(m, key) == [x \in (DOMAIN m) \ {key} |-> m[x]]

\* A catch block that puts the status back to idle.
CatchScanErrorToIdle(st, message) == [st EXCEPT !.status = "idle", !.lastError = message]

\* The catch block of runScan.
CatchScanError(st, message) == [st EXCEPT !.status = "error", !.lastError = message]

\* A POST /api/scan that lost its check for scan paths.
NoPathsAvailableUnchecked(paths) == FALSE

\* POST /api/scan: `paths.length === 0`, neither the request nor the
\* settings name a scan path.
NoPathsAvailable(paths) == Len(paths) = 0

\* POST /api/scan.  body: request paths (empty: none given); failAt: which
\* publish of the synchronous part throws (0: none, 1: scan_started,
\* 1 + i: the scan_progress of directory i).  runScan runs without yielding
\* through the whole of scanPaths, which has no await.
StartScan(body, failAt) ==
  LET paths == IF Len(body) > 0 THEN body ELSE scanPathsSetting
      dirs  == GameDirs(paths)
      n     == Len(dirs)
      started == [scanState EXCEPT !.status = "running", !.progress = ZeroProgress,
                                   !.lastError = Null]
  IN
  IF ScanInProgress(scanState) THEN
    /\ failAt = 0
    /\ ev' = [op |-> "startScan", result |-> 409, progress |-> scanState.progress]
    /\ UNCHANGED <<launchVars, scanVars, callVars, artwork>>
  ELSE IF NoPathsAvailable(paths) THEN
    /\ failAt = 0
    /\ ev' = [op |-> "startScan", result |-> 400, paths |-> paths]
    /\ UNCHANGED <<launchVars, scanVars, callVars, artwork>>
  ELSE
    /\ failAt \in 0..(n + 1)
    /\ opCount.scans + opCount.lib < MaxScans
    /\ ev' = [op |-> "startScan", result |-> 202, paths |-> paths]
    /\ IF failAt = 1 THEN
         \* broadcast(scan_started) throws before the try block is entered:
         \* the promise of runScan rejects and the run is over
         /\ scanState' = started
         /\ wsLog' = << >>
         /\ opCount' = [opCount EXCEPT !.scans = @ + 1]
         /\ UNCHANGED runs
       ELSE
         LET last == IF failAt = 0 THEN n ELSE failAt - 1
             published == IF failAt = 0 THEN n ELSE failAt - 2
         IN
         /\ scanState' = IF last = 0 THEN started
                         ELSE [started EXCEPT !.progress = ProgressEvent(dirs, last)]
         /\ wsLog' = <<[type |-> "scan_started"]>> \o
                     [j \in 1..published |->
                        [type |-> "scan_progress"] @@ ProgressEvent(dirs, j)]
         /\ runs' = Append(runs,
                      [pc |-> IF failAt = 0 THEN "walked" ELSE "failed",
                       scanned |-> ResultsAfter(dirs, n), i |-> 1,
                       unlinkedByName |-> << >>,
                       added |-> 0, skipped |-> 0, relinked |-> 0,
                       newGames |-> << >>, relinkedIds |-> << >>,
                       pending |-> Null])
         /\ UNCHANGED opCount
    /\ UNCHANGED <<launchVars, callVars, artwork, games, nextId, scanPathsSetting, unlinkJob>>

\* runScan resumes after scanPaths; persistScannedGames selects the unlinked
\* rows and builds unlinkedByName.
RunPrefetch(k) ==
  /\ k \in DOMAIN runs
  /\ runs[k].pc = "walked"
  /\ runs' = [runs EXCEPT ![k].unlinkedByName = UnlinkedByName(games),
                          ![k].pc = IF Len(runs[k].scanned) = 0 THEN "finish" ELSE "check"]
  /\ ev' = [op |-> "prefetch"]
  /\ UNCHANGED <<launchVars, callVars, artwork, scanState, games, nextId, scanPathsSetting, wsLog, unlinkJob, opCount>>

\* A classification that lost its select by rootPath.
ClassifyNoDuplicateCheck(rows, byName, game) ==
  IF Lower(game.name) \in DOMAIN byName
    THEN [kind |-> "relink", id |-> byName[Lower(game.name)]]
  ELSE [kind |-> "new"]

\* The outcome of one scanned game: duplicate, re-link or new.
Classify(rows, byName, game) ==
  IF \E id \in DOMAIN rows : rows[id].rootPath = game.rootPath THEN [kind |-> "duplicate"]
  ELSE IF Lower(game.name) \in DOMAIN byName
    THEN [kind |-> "relink", id |-> byName[Lower(game.name)]]
  ELSE [kind |-> "new"]

\* A counter update that forgets the re-link count.
CountOutcomeNoRelink(run, kind) ==
  [run EXCEPT !.added = IF kind = "new" THEN @ + 1 ELSE @,
              !.skipped = IF kind = "duplicate" THEN @ + 1 ELSE @]

\* persistScannedGames: added++, skipped++ or relinked++.
CountOutcome(run, kind) ==
  [run EXCEPT !.added = IF kind = "new" THEN @ + 1 ELSE @,
              !.skipped = IF kind = "duplicate" THEN @ + 1 ELSE @,
              !.relinked = IF kind = "relink" THEN @ + 1 ELSE @]

\* A re-link that leaves the name in unlinkedByName.
ForgetUnlinkedKeep(byName, name) == byName

\* persistScannedGames: unlinkedByName.delete(game.name.toLowerCase()).
ForgetUnlinked(byName, name) == MapDelete(byName, Lower(name))

\* `continue` / end of the loop body: the next scanned game, or the return.
Advance(run) ==
  [run EXCEPT !.i = @ + 1, !.pending = Null,
              !.pc = IF run.i + 1 > Len(run.scanned) THEN "finish" ELSE "check"]

\* persistScannedGames, one loop iteration up to its write: the select by
\* rootPath and the lookup in unlinkedByName.
RunCheck(k) ==
  /\ k \in DOMAIN runs
  /\ runs[k].pc = "check"
  /\ LET run == runs[k]
         game == run.scanned[run.i]
         c == Classify(games, run.unlinkedByName, game)
     IN /\ runs' = [runs EXCEPT ![k] =
                      IF c.kind = "duplicate" THEN Advance(CountOutcome(run, "duplicate"))
                      ELSE [run EXCEPT !.pc = "write", !.pending = c]]
        /\ ev' = [op |-> "classify", run |-> k, game |-> game, outcome |-> c]
  /\ UNCHANGED <<launchVars, callVars, artwork, scanState, games, nextId, scanPathsSetting, wsLog, unlinkJob, opCount>>

\* persistScannedGames, the write of one loop iteration: the update of the
\* unlinked row, or the insert of a new row with a fresh id.
RunWrite(k) ==
  /\ k \in DOMAIN runs
  /\ runs[k].pc = "write"
  /\ LET run == runs[k]
         game == run.scanned[run.i]
         c == run.pending
     IN IF c.kind = "relink" THEN
          /\ games' = [id \in DOMAIN games |->
                         IF id = c.id
                           THEN [games[id] EXCEPT !.rootPath = game.rootPath,
                                                  !.exePath = game.exePath]
                           ELSE games[id]]
          /\ runs' = [runs EXCEPT ![k] =
                        Advance([CountOutcome(run, "relink") EXCEPT
                                   !.unlinkedByName = ForgetUnlinked(@, game.name),
                                   !.relinkedIds = Append(@, c.id)])]
          /\ ev' = [op |-> "relink", run |-> k, id |-> c.id]
          /\ UNCHANGED nextId
        ELSE
          /\ nextId < MaxGames
          /\ nextId' = nextId + 1
          /\ games' = [id \in (DOMAIN games) \cup {nextId + 1} |->
                         IF id = nextId + 1
                           THEN [name |-> game.name, rootPath |-> game.rootPath,
                                 exePath |-> game.exePath, winePrefix |-> id]
                           ELSE games[id]]
          /\ runs' = [runs EXCEPT ![k] =
                        Advance([CountOutcome(run, "new") EXCEPT
                                   !.newGames = Append(@, [id |-> nextId + 1, name |-> game.name])])]
          /\ ev' = [op |-> "insert", run |-> k, id |-> nextId + 1]
  /\ UNCHANGED <<launchVars, callVars, artwork, scanState, scanPathsSetting, wsLog, unlinkJob, opCount>>

\* runScan after persistScannedGames returned.  sendFails: the publish of
\* scan_complete throws, which the catch block turns into an error.
RunFinish(k, sendFails) ==
  /\ k \in DOMAIN runs
  /\ runs[k].pc = "finish"
  /\ LET run == runs[k]
         results == [added |-> run.added, skipped |-> run.skipped,
                     relinked |-> run.relinked, total |-> Len(run.scanned)]
         done == [scanState EXCEPT !.status = "done", !.lastRun = now,
                                   !.lastResults = results]
     IN /\ scanState' = IF sendFails THEN CatchScanError(done, "send failed") ELSE done
        /\ wsLog' = Append(wsLog, IF sendFails THEN [type |-> "scan_error"]
                                  ELSE [type |-> "scan_complete"] @@ results)
        /\ ev' = [op |-> "finish", run |-> k, results |-> results,
                  newGames |-> run.newGames, sendFails |-> sendFails]
        /\ artwork' = IF ~sendFails /\ Len(run.newGames) > 0
                         THEN Append(artwork, [count |-> Len(run.newGames)])
                         ELSE artwork
  /\ runs' = RemoveRun(k)
  /\ opCount' = [opCount EXCEPT !.scans = @ + 1]
  /\ UNCHANGED <<launchVars, callVars, games, nextId, scanPathsSetting, unlinkJob>>

\* The catch block of runScan: a publish inside scanPaths threw, or the
\* database statement the run was about to execute throws.
RunFail(k) ==
  /\ k \in DOMAIN runs
  /\ runs[k].pc \in {"failed", "walked", "check", "write"}
  /\ scanState' = CatchScanError(scanState,
                     IF runs[k].pc = "failed" THEN "send failed" ELSE "database error")
  /\ wsLog' = Append(wsLog, [type |-> "scan_error"])
  /\ ev' = [op |-> "scanError", run |-> k]
  /\ runs' = RemoveRun(k)
  /\ opCount' = [opCount EXCEPT !.scans = @ + 1]
  /\ UNCHANGED <<launchVars, callVars, artwork, games, nextId, scanPathsSetting, unlinkJob>>

RemoveJob(j) == [i \in 1..(Len(artwork) - 1) |-> IF i < j THEN artwork[i] ELSE artwork[i + 1]]

\* fetchArtworkForNewGames resolved: the .then callback publishes
\* artwork_complete.  sendFails: that publish throws, which the .catch
\* behind it logs.
ArtworkDone(j, sendFails) ==
  /\ j \in DOMAIN artwork
  /\ wsLog' = IF sendFails THEN wsLog
              ELSE Append(wsLog, [type |-> "artwork_complete", count |-> artwork[j].count])
  /\ artwork' = RemoveJob(j)
  /\ ev' = [op |-> "artworkDone", sendFails |-> sendFails]
  /\ UNCHANGED <<launchVars, callVars, scanState, games, nextId, scanPathsSetting, runs,
                 unlinkJob, opCount>>

\* An enrichment failure that is treated as a failure of the scan.
ArtworkFailFailsScan(j) ==
  /\ j \in DOMAIN artwork
  /\ artwork' = RemoveJob(j)
  /\ scanState' = CatchScanError(scanState, "artwork error")
  /\ ev' = [op |-> "artworkFailed"]
  /\ UNCHANGED <<launchVars, callVars, games, nextId, scanPathsSetting, runs, wsLog,
                 unlinkJob, opCount>>

\* fetchArtworkForNewGames rejected: the .catch callback logs a warning.
ArtworkFail(j) ==
  /\ j \in DOMAIN artwork
  /\ artwork' = RemoveJob(j)
  /\ ev' = [op |-> "artworkFailed"]
  /\ UNCHANGED <<launchVars, callVars, scanState, games, nextId, scanPathsSetting, runs, wsLog,
                 unlinkJob, opCount>>

-----------------------------------------------------------------------------
(* Library routes: games.ts and settings.ts *)

\* Every library write request counts against the request budget.
Served ==
  /\ opCount.lib < MaxLibOps
  /\ opCount.scans + opCount.lib < MaxScans
  /\ opCount' = [opCount EXCEPT !.lib = @ + 1]

\* POST /api/games: insert with a fresh id.
AddGame(name, rootPath, exePath) ==
  /\ Served
  /\ nextId < MaxGames
  /\ nextId' = nextId + 1
  /\ games' = [id \in (DOMAIN games) \cup {nextId + 1} |->
                 IF id = nextId + 1
                   THEN [name |-> name, rootPath |-> rootPath, exePath |-> exePath,
                         winePrefix |-> id]
                   ELSE games[id]]
  /\ ev' = [op |-> "addGame", result |-> 201]
  /\ UNCHANGED <<launchVars, callVars, artwork, scanState, scanPathsSetting, runs, wsLog, unlinkJob>>

\* PUT /api/games/:id with a body that sets `field` (name or exePath).
UpdateGame(id, field, value) ==
  /\ Served
  /\ IF id \notin DOMAIN games THEN
       /\ ev' = [op |-> "updateGame", result |-> 404]
       /\ UNCHANGED games
     ELSE
       /\ games' = [games EXCEPT ![id] =
                      IF field = "name" THEN [@ EXCEPT !.name = value]
                      ELSE [@ EXCEPT !.exePath = value]]
       /\ ev' = [op |-> "updateGame", result |-> 200]
  /\ UNCHANGED <<launchVars, callVars, artwork, scanState, nextId, scanPathsSetting, runs, wsLog, unlinkJob>>

\* PUT /api/games/:id/path: rootPath from the body, exePath detected.
SetPath(id, rootPath) ==
  /\ Served
  /\ IF id \notin DOMAIN games THEN
       /\ ev' = [op |-> "setPath", result |-> 404]
       /\ UNCHANGED games
     ELSE IF DetectExeInDirectory(rootPath) = Null THEN
       /\ ev' = [op |-> "setPath", result |-> 400]
       /\ UNCHANGED games
     ELSE
       /\ games' = [games EXCEPT ![id] =
                      [@ EXCEPT !.rootPath = rootPath,
                                !.exePath = DetectExeInDirectory(rootPath)]]
       /\ ev' = [op |-> "setPath", result |-> 200]
  /\ UNCHANGED <<launchVars, callVars, artwork, scanState, nextId, scanPathsSetting, runs, wsLog, unlinkJob>>

\* DELETE /api/games/:id.
DeleteGame(id) ==
  /\ Served
  /\ IF id \notin DOMAIN games THEN
       /\ ev' = [op |-> "deleteGame", result |-> 404]
       /\ UNCHANGED games
     ELSE
       /\ games' = [x \in (DOMAIN games) \ {id} |-> games[x]]
       /\ ev' = [op |-> "deleteGame", result |-> 204]
  /\ UNCHANGED <<launchVars, callVars, artwork, scanState, nextId, scanPathsSetting, runs, wsLog, unlinkJob>>

\* rootPath === p || rootPath.startsWith(p + "/"), on paths as segment lists.
IsUnder(rootPath, p) ==
  /\ Len(rootPath) >= Len(p)
  /\ SubSeq(rootPath, 1, Len(p)) = p

\* PUT /api/settings: the rows that are linked and under no scan path.
Orphaned(rows, currentPaths) ==
  {id \in DOMAIN rows :
     /\ rows[id].rootPath # Null
     /\ \/ Len(currentPaths) = 0
        \/ ~\E j \in 1..Len(currentPaths) : IsUnder(rows[id].rootPath, currentPaths[j])}

\* PUT /api/settings: updated.scanPaths without the slashes at their ends.
CurrentPaths(paths) == [j \in 1..Len(paths) |-> StripTrailingSlashes(paths[j])]

\* PUT /api/settings with scanPaths: updateSettings, then the select of all
\* games; the orphaned ids are computed from the rows read here.
PutSettings(paths) ==
  /\ ~unlinkJob.active
  /\ scanPathsSetting' = paths
  /\ unlinkJob' = IF Orphaned(games, CurrentPaths(paths)) = {} THEN NoJob
                  ELSE [active |-> TRUE, ids |-> Orphaned(games, CurrentPaths(paths))]
  /\ Served
  /\ ev' = [op |-> "putSettings"]
  /\ UNCHANGED <<launchVars, callVars, artwork, scanState, games, nextId, runs, wsLog>>

\* PUT /api/settings: the update that sets rootPath and exePath to NULL for
\* the orphaned ids.
SoftUnlink ==
  /\ unlinkJob.active
  /\ games' = [id \in DOMAIN games |->
                 IF id \in unlinkJob.ids
                   THEN [games[id] EXCEPT !.rootPath = Null, !.exePath = Null]
                   ELSE games[id]]
  /\ unlinkJob' = NoJob
  /\ ev' = [op |-> "softUnlink"]
  /\ UNCHANGED <<launchVars, callVars, artwork, scanState, nextId, scanPathsSetting, runs, wsLog, opCount>>

-----------------------------------------------------------------------------
(* Inputs of the scan and library operations *)

BodyPaths == {<< >>, <<<<"a">>>>, <<<<"a">>, <<"b">>>>}
GameNames == {"Foo", "Bar"}
ManualRoots == {<<"c", "ext">>}
SetPathRoots == {<<"b", "Foo">>, <<"a", "tools">>}
Ids == 1..MaxGames

StartScanStep == \E body \in BodyPaths, failAt \in 0..4 : StartScan(body, failAt)
RunPrefetchStep == \E k \in DOMAIN runs : RunPrefetch(k)
RunCheckStep == \E k \in DOMAIN runs : RunCheck(k)
RunWriteStep == \E k \in DOMAIN runs : RunWrite(k)
RunFinishStep == \E k \in DOMAIN runs, sendFails \in BOOLEAN : RunFinish(k, sendFails)
RunFailStep == \E k \in DOMAIN runs : RunFail(k)
ArtworkDoneStep == \E j \in DOMAIN artwork, sendFails \in BOOLEAN : ArtworkDone(j, sendFails)
ArtworkFailStep == \E j \in DOMAIN artwork : ArtworkFail(j)
AddGameStep == \E name \in GameNames, r \in ManualRoots : AddGame(name, r, r \o <<"game.exe">>)
UpdateGameStep ==
  \E id \in Ids :
    \/ UpdateGame(id, "name", "Bar")
    \/ UpdateGame(id, "exePath", <<"c", "ext", "alt.exe">>)
SetPathStep == \E id \in Ids, r \in SetPathRoots : SetPath(id, r)
DeleteGameStep == \E id \in Ids : DeleteGame(id)
PutSettingsStep == \E paths \in PutPaths : PutSettings(paths)

NextScan ==
  \/ StartScanStep \/ RunPrefetchStep \/ RunCheckStep \/ RunWriteStep
  \/ RunFinishStep \/ RunFailStep \/ ArtworkDoneStep \/ ArtworkFailStep
  \/ AddGameStep \/ UpdateGameStep \/ SetPathStep \/ DeleteGameStep
  \/ PutSettingsStep \/ SoftUnlink

SpecScan == Init /\ [][NextScan]_vars

\* Requests served one after another: no library request is handled while a
\* scan run or a settings update is between two of its steps, and no scan
\* request while a settings update is.
Quiescent == runs = << >> /\ ~unlinkJob.active

NextScanSeq ==
  \/ (~unlinkJob.active /\ StartScanStep) \/ RunPrefetchStep \/ RunCheckStep \/ RunWriteStep
  \/ RunFinishStep \/ RunFailStep \/ ArtworkDoneStep \/ ArtworkFailStep \/ SoftUnlink
  \/ (Quiescent /\ AddGameStep) \/ (Quiescent /\ UpdateGameStep)
  \/ (Quiescent /\ SetPathStep) \/ (Quiescent /\ DeleteGameStep)
  \/ (Quiescent /\ PutSettingsStep)

SpecScanSeq == Init /\ [][NextScanSeq]_vars

\* Scans of settings.scanPaths only: every request comes without a body and
\* no library request is served, so every run walks the same directories.
RescanStep == \E failAt \in 0..4 : StartScan(<< >>, failAt)

NextRescan ==
  \/ RescanStep \/ RunPrefetchStep \/ RunCheckStep \/ RunWriteStep
  \/ RunFinishStep \/ RunFailStep \/ ArtworkDoneStep \/ ArtworkFailStep

SpecRescan == Init /\ [][NextRescan]_vars

\* Scans and changes of the scan paths only, with requests that name a scan
\* path twice: as it is, or once with a slash at its end.
RepeatedPaths == {<< >>, <<<<"a">>, <<"a">>>>, <<<<"a", "">>, <<"a">>>>, <<<<"a">>, <<"b">>>>}

RepeatedScanStep == \E body \in RepeatedPaths, failAt \in 0..5 : StartScan(body, failAt)

NextRepeated ==
  \/ RepeatedScanStep \/ RunPrefetchStep \/ RunCheckStep \/ RunWriteStep
  \/ RunFinishStep \/ RunFailStep \/ ArtworkDoneStep \/ ArtworkFailStep
  \/ PutSettingsStep \/ SoftUnlink

SpecRepeated == Init /\ [][NextRepeated]_vars

-----------------------------------------------------------------------------
(* Launch and kill routes, and the exit callback: launch.ts *)

MaxApiRequests == 3   \* launch and kill requests received in one behaviour

ApiUnchanged == <<now, scanVars, artwork, args, result, steamDisk, pad>>

\* The games table of the route model: /a/foo as a scan of /a inserted it,
\* and an entry that a change of scanPaths soft-unlinked.
ApiLibrary ==
  << [name |-> "foo", rootPath |-> <<"a", "foo">>,
      exePath |-> <<"a", "foo", "game.exe">>, winePrefix |-> 1],
     UnlinkedRow(2, "Bar") >>

InitApi ==
  /\ registry = << >>
  /\ children = << >>
  /\ now = 0
  /\ prefixDirs = {}
  /\ ev = NoEv
  /\ scanState = ScanStateInit
  /\ games = ApiLibrary
  /\ nextId = Len(games)
  /\ scanPathsSetting = <<<<"a">>, <<"b">>>>
  /\ runs = << >>
  /\ wsLog = << >>
  /\ unlinkJob = NoJob
  /\ artwork = << >>
  /\ steamDisk = NoSteam
  /\ launchApi = NoApi
  /\ pad = NoPad
  /\ opCount = [lib |-> 0, scans |-> 0]
  /\ args = NoCall
  /\ result = NoCall

\* The handlers in flight without handler j, which returned.
RemoveApiJob(j) ==
  [i \in 1..(Len(launchApi.jobs) - 1) |->
     IF i < j THEN launchApi.jobs[i] ELSE launchApi.jobs[i + 1]]

\* The row that `select ... where id = :id` returns, as the handler keeps it.
SelectGame(id) ==
  [found  |-> id \in DOMAIN games,
   linked |-> /\ id \in DOMAIN games
              /\ games[id].exePath # Null
              /\ games[id].rootPath # Null]

\* How the handler's Proton version resolves: no protonId anywhere, a
\* protonId that findProtonVersion does not find, a version directory
\* without the proton script, or a version that can be started.
ProtonChoices == {"unset", "notInstalled", "noScript", "ok"}

\* POST /api/games/:id/launch up to its first await: the select of the row.
ApiLaunchRequest(id) ==
  /\ launchApi.requests < MaxApiRequests
  /\ launchApi' = [launchApi EXCEPT
                     !.requests = @ + 1,
                     !.jobs = Append(@, [kind |-> "launch", pc |-> "selected",
                                         gameId |-> id, row |-> SelectGame(id)])]
  /\ ev' = [op |-> "launchRequest", gameId |-> id]
  /\ UNCHANGED <<registry, children, prefixDirs, ApiUnchanged>>

\* POST /api/games/:id/launch from the row to its second await: the checks,
\* launch() and the update of last_played.
ApiLaunchRun(j, proton, pidOk) ==
  LET job == launchApi.jobs[j]
      id == job.gameId
      h == Len(children) + 1
      answer(code) ==
        /\ launchApi' = [launchApi EXCEPT !.jobs = RemoveApiJob(j)]
        /\ ev' = [op |-> "launchResponse", gameId |-> id, result |-> code]
  IN
  /\ job.kind = "launch" /\ job.pc = "selected"
  /\ IF ~job.row.found THEN
       answer(404) /\ UNCHANGED <<registry, children, prefixDirs, ApiUnchanged>>
     ELSE IF ~job.row.linked THEN
       answer(400) /\ UNCHANGED <<registry, children, prefixDirs, ApiUnchanged>>
     ELSE IF GetStatus(registry, id) = "running" THEN
       answer(409) /\ UNCHANGED <<registry, children, prefixDirs, ApiUnchanged>>
     ELSE IF proton \in {"unset", "notInstalled"} THEN
       answer(400) /\ UNCHANGED <<registry, children, prefixDirs, ApiUnchanged>>
     ELSE IF proton = "noScript" \/ ~pidOk THEN
       /\ prefixDirs' = prefixDirs \cup {id}
       /\ answer(500)
       /\ UNCHANGED <<registry, children, ApiUnchanged>>
     ELSE
       /\ h \in Handles
       /\ prefixDirs' = prefixDirs \cup {id}
       /\ children' = Append(children,
                             [gameId |-> id, pid |-> h, startedAt |-> now,
                              state |-> "live", signalled |-> FALSE, exitHandled |-> 0])
       /\ registry' = RegistrySet(registry, id,
                                  [gameId |-> id, pid |-> h, startedAt |-> now, process |-> h])
       /\ launchApi' = [launchApi EXCEPT
                          !.jobs[j] = [kind |-> "launch", pc |-> "launched",
                                       gameId |-> id, process |-> h]]
       /\ ev' = [op |-> "launched", gameId |-> id, process |-> h]
       /\ UNCHANGED ApiUnchanged

\* POST /api/games/:id/launch after the update: the launch_status running
\* notification and the 200 response.
ApiLaunchEnd(j) ==
  LET job == launchApi.jobs[j] IN
  /\ job.kind = "launch" /\ job.pc = "launched"
  /\ launchApi' = [launchApi EXCEPT
                     !.jobs = RemoveApiJob(j),
                     !.log = Append(@, [gameId |-> job.gameId, status |-> "running",
                                        process |-> job.process])]
  /\ ev' = [op |-> "launchResponse", gameId |-> job.gameId, result |-> 200,
            process |-> job.process]
  /\ UNCHANGED <<registry, children, prefixDirs, ApiUnchanged>>

\* The child's 'exit' event with the exit callback of launch.ts installed:
\* handleExit, then the callback up to its await, the update of the play time.
ApiChildExit(h, rep) ==
  /\ h \in DOMAIN children
  /\ children[h].state = "live"
  /\ LET kids == [children EXCEPT ![h].state = "exited"]
         r == HandleExit(registry, kids, h, rep.code, rep.signal)
     IN /\ registry' = r.registry
        /\ children' = r.children
        /\ launchApi' = [launchApi EXCEPT
                           !.jobs = Append(@, [kind |-> "exit", gameId |-> r.call.gameId,
                                               process |-> h])]
        /\ ev' = [op |-> "exit", gameId |-> children[h].gameId, process |-> h,
                  call |-> r.call]
  /\ UNCHANGED <<prefixDirs, ApiUnchanged>>

\* The exit callback after the update: the launch_status stopped notification.
ApiExitEnd(j) ==
  LET job == launchApi.jobs[j] IN
  /\ job.kind = "exit"
  /\ launchApi' = [launchApi EXCEPT
                     !.jobs = RemoveApiJob(j),
                     !.log = Append(@, [gameId |-> job.gameId, status |-> "stopped",
                                        process |-> job.process])]
  /\ ev' = [op |-> "exitCallbackEnd", gameId |-> job.gameId, process |-> job.process]
  /\ UNCHANGED <<registry, children, prefixDirs, ApiUnchanged>>

\* POST /api/games/:id/kill up to its await: the select of the row.
ApiKillRequest(id) ==
  /\ launchApi.requests < MaxApiRequests
  /\ launchApi' = [launchApi EXCEPT
                     !.requests = @ + 1,
                     !.jobs = Append(@, [kind |-> "kill", pc |-> "selected",
                                         gameId |-> id, row |-> SelectGame(id)])]
  /\ ev' = [op |-> "killRequest", gameId |-> id]
  /\ UNCHANGED <<registry, children, prefixDirs, ApiUnchanged>>

\* POST /api/games/:id/kill from the row on: the checks and kill().
\* `killed` says whether the handler called kill(), and on which process.
ApiKillRun(j, delivered) ==
  LET job == launchApi.jobs[j]
      id == job.gameId
      inputs == [op |-> "apiKill", gameId |-> id, found |-> job.row.found]
  IN
  /\ job.kind = "kill"
  /\ IF ~job.row.found \/ GetStatus(registry, id) # "running" THEN
       /\ launchApi' = [launchApi EXCEPT !.jobs = RemoveApiJob(j)]
       /\ ev' = inputs @@ [result |-> 404, killed |-> << >>]
       /\ UNCHANGED <<registry, children, prefixDirs, ApiUnchanged>>
     ELSE
       LET h == registry[id].process IN
       IF delivered THEN
         /\ children' = [children EXCEPT ![h].signalled = TRUE]
         /\ launchApi' = [launchApi EXCEPT !.jobs = RemoveApiJob(j)]
         /\ ev' = inputs @@ [result |-> 200, killed |-> <<h>>]
         /\ UNCHANGED <<registry, prefixDirs, ApiUnchanged>>
       ELSE
         LET r == HandleExit(registry, children, h, "null", "null") IN
         /\ registry' = r.registry
         /\ children' = r.children
         /\ launchApi' = [launchApi EXCEPT
                            !.jobs = Append(RemoveApiJob(j),
                                            [kind |-> "exit", gameId |-> r.call.gameId,
                                             process |-> h])]
         /\ ev' = inputs @@ [result |-> 200, killed |-> <<h>>]
         /\ UNCHANGED <<prefixDirs, ApiUnchanged>>

ApiLaunchRequestStep == \E id \in Ids : ApiLaunchRequest(id)
ApiLaunchRunStep ==
  \E j \in DOMAIN launchApi.jobs, proton \in ProtonChoices, pidOk \in BOOLEAN :
     ApiLaunchRun(j, proton, pidOk)
ApiLaunchEndStep == \E j \in DOMAIN launchApi.jobs : ApiLaunchEnd(j)
ApiChildExitStep == \E h \in Handles, rep \in ExitReports : ApiChildExit(h, rep)
ApiExitEndStep == \E j \in DOMAIN launchApi.jobs : ApiExitEnd(j)
ApiKillRequestStep == \E id \in Ids : ApiKillRequest(id)
ApiKillRunStep == \E j \in DOMAIN launchApi.jobs, delivered \in BOOLEAN : ApiKillRun(j, delivered)

\* The launch and kill routes next to the library routes that delete or
\* soft-unlink an entry; the handlers interleave at their awaits.
NextApi ==
  \/ ApiLaunchRequestStep \/ ApiLaunchRunStep \/ ApiLaunchEndStep
  \/ ApiChildExitStep \/ ApiExitEndStep
  \/ ApiKillRequestStep \/ ApiKillRunStep
  \/ DeleteGameStep \/ PutSettingsStep \/ SoftUnlink

SpecApi == InitApi /\ [][NextApi]_vars

-----------------------------------------------------------------------------
(* Strings are sequences of characters; paths are sequences of segments.   *)

UpperLetters == <<"A", "B", "C", "D", "E", "F", "G", "H", "I", "J", "K", "L", "M", "N", "O", "P", "Q", "R", "S", "T", "U", "V", "W", "X", "Y", "Z">>
LowerLetters == <<"a", "b", "c", "d", "e", "f", "g", "h", "i", "j", "k", "l", "m", "n", "o", "p", "q", "r", "s", "t", "u", "v", "w", "x", "y", "z">>
DigitChars == {"0", "1", "2", "3", "4", "5", "6", "7", "8", "9"}

\* String.prototype.toLowerCase, one character.
ToLowerChar(c) ==
  IF \E i \in 1..Len(UpperLetters) : UpperLetters[i] = c
    THEN LowerLetters[CHOOSE i \in 1..Len(UpperLetters) : UpperLetters[i] = c]
    ELSE c

ToLowerCase(s) == [i \in 1..Len(s) |-> ToLowerChar(s[i])]

\* The characters the pattern [^a-z0-9] leaves in place.
IsAlnum(c) == c \in DigitChars \/ \E i \in 1..Len(LowerLetters) : LowerLetters[i] = c

\* String.prototype.includes.
Includes(s, t) == \E i \in 0..(Len(s) - Len(t)) : SubSeq(s, i + 1, i + Len(t)) = t

\* String.prototype.endsWith.
EndsWith(s, t) == Len(s) >= Len(t) /\ SubSeq(s, Len(s) - Len(t) + 1, Len(s)) = t

ExeSuffix == <<".", "e", "x", "e">>

\* path.basename(p, ext): the last segment, without ext when the segment
\* ends with exactly ext (compared case-sensitively) and is longer than it.
Basename(p, ext) ==
  LET name == p[Len(p)]
  IN IF EndsWith(name, ext) /\ Len(name) > Len(ext)
       THEN SubSeq(name, 1, Len(name) - Len(ext))
       ELSE name

-----------------------------------------------------------------------------
(* Executable ranking: exe-detector.ts *)

HEAVY_PENALTY_PATTERNS ==
  << <<"l", "a", "u", "n", "c", "h", "e", "r">>,
     <<"s", "e", "t", "u", "p">>,
     <<"u", "n", "i", "n", "s">>,
     <<"r", "e", "d", "i", "s", "t">>,
     <<"i", "n", "s", "t", "a", "l", "l">>,
     <<"u", "n", "i", "n", "s", "t">>,
     <<"v", "c", "r", "e", "d", "i", "s", "t">>,
     <<"d", "i", "r", "e", "c", "t", "x">>,
     <<"d", "x", "s", "e", "t", "u", "p">>,
     <<"d", "o", "t", "n", "e", "t">> >>

LIGHT_PENALTY_PATTERNS ==
  << <<"c", "r", "a", "s", "h">>,
     <<"u", "p", "d", "a", "t", "e">>,
     <<"r", "e", "p", "o", "r", "t">>,
     <<"h", "e", "l", "p", "e", "r">>,
     <<"s", "e", "r", "v", "i", "c", "e">>,
     <<"c", "o", "n", "f", "i", "g">>,
     <<"r", "e", "g", "i", "s", "t", "e", "r">>,
     <<"e", "a", "s", "y", "a", "n", "t", "i", "c", "h", "e", "a", "t">>,
     <<"b", "a", "t", "t", "l", "e", "y", "e">>,
     <<"b", "e", "t", "h", "e", "s", "d", "a", "n", "e", "t">>,
     <<"g", "a", "l", "a", "x", "y", "c", "l", "i", "e", "n", "t">> >>

\* normalise(s): lowercase, strip non-alphanumeric characters.
Normalise(s) == SelectSeq(ToLowerCase(s), IsAlnum)

\* depth(relativePath): relativePath.split("/").length - 1.
Depth(relativePath) == Len(relativePath) - 1

\* How many of the keywords the stem includes.
PenaltyMatches(stem, patterns) ==
  Cardinality({i \in 1..Len(patterns) : Includes(stem, patterns[i])})

\* The stem scoreExe compares.
ScoredStem(candidate) == Normalise(Basename(candidate.absolutePath, ExeSuffix))

\* A name-similarity test that wants equal names.
NameSimilarEqualOnly(stem, gameName) == stem = gameName

\* scoreExe: the condition of the +40 name-similarity bonus.
NameSimilar(stem, gameName) ==
  \/ stem = gameName
  \/ (Len(gameName) >= 3 /\ Includes(stem, gameName))
  \/ (Len(stem) >= 3 /\ Includes(gameName, stem))

\* scoreExe(candidate, gameDirectoryName).
ScoreExe(candidate, gameDirectoryName) ==
  LET stem == ScoredStem(candidate)
      gameName == Normalise(gameDirectoryName)
  IN (IF NameSimilar(stem, gameName) THEN 40 ELSE 0)
     + (IF Depth(candidate.relativePath) <= 1 THEN 20 ELSE 0)
     + (IF candidate.sizeBytes > 1000000 THEN 15 ELSE 0)
     - 50 * PenaltyMatches(stem, HEAVY_PENALTY_PATTERNS)
     - 30 * PenaltyMatches(stem, LIGHT_PENALTY_PATTERNS)

RECURSIVE InsertByScore(_, _)
\* Array.prototype.sort with (a, b) => b.score - a.score is stable: x goes
\* behind every element whose score is not smaller.
InsertByScore(sorted, x) ==
  IF sorted = << >> THEN <<x>>
  ELSE IF Head(sorted).score >= x.score
    THEN <<Head(sorted)>> \o InsertByScore(Tail(sorted), x)
    ELSE <<x>> \o sorted

RECURSIVE SortByScore(_)
SortByScore(scored) ==
  IF scored = << >> THEN << >>
  ELSE InsertByScore(SortByScore(SubSeq(scored, 1, Len(scored) - 1)), scored[Len(scored)])

\* A ranking that scores the candidates and leaves them in input order.
RankExesUnsorted(candidates, gameDirectoryName) ==
  [i \in 1..Len(candidates) |->
     candidates[i] @@ [score |-> ScoreExe(candidates[i], gameDirectoryName)]]

\* rankExes(candidates, gameDirectoryName).
RankExes(candidates, gameDirectoryName) ==
  SortByScore([i \in 1..Len(candidates) |->
                 candidates[i] @@ [score |-> ScoreExe(candidates[i], gameDirectoryName)]])

-----------------------------------------------------------------------------
(* The file system the scanner reads, and scanner.ts *)

MAX_EXE_DEPTH == 5
MaxLinkHops == 8   \* symbolic links followed while one path is resolved

EXCLUDED_FOLDER_NAMES == { <<"p", "r", "e", "f", "i", "x", "e", "s">> }

\* A disk is a set of nodes [path, kind, ...]: kind "dir" with the names
\* readdir returns and whether it can be listed, kind "file" with its size,
\* kind "link" with the path the symbolic link points to.
HasNode(disk, p) == \E e \in disk : e.path = p
NodeAt(disk, p) == CHOOSE e \in disk : e.path = p

RECURSIVE RealPath(_, _, _, _)
\* The path that `done \o rest` names once every symbolic link on the way is
\* followed; << >> when a component is missing or the hops run out.
RealPath(disk, done, rest, hops) ==
  IF rest = << >> THEN done
  ELSE LET \* The next component, p, is looked up once; tail is what follows it.
           Resolve(p, tail) ==
             IF ~HasNode(disk, p) THEN << >>
             ELSE IF NodeAt(disk, p).kind = "link"
               THEN IF hops = 0 THEN << >>
                    ELSE RealPath(disk, << >>, NodeAt(disk, p).target \o tail, hops - 1)
               ELSE RealPath(disk, p, tail, hops)
       IN CHOOSE r \in {Resolve(p, tail) : p \in {Append(done, Head(rest))}, tail \in {Tail(rest)}} : TRUE

\* fs.lstatSync: the node the path names, its last component not followed.
LstatKind(disk, p) ==
  LET parent == RealPath(disk, << >>, SubSeq(p, 1, Len(p) - 1), MaxLinkHops)
  IN IF Len(p) > 1 /\ parent = << >> THEN "missing"
     ELSE IF ~HasNode(disk, Append(parent, p[Len(p)])) THEN "missing"
     ELSE NodeAt(disk, Append(parent, p[Len(p)])).kind

\* fs.statSync(p): throws when the path does not resolve; otherwise the
\* Stats of the node the path resolves to.  statSync follows symbolic links,
\* so its Stats never answer isSymbolicLink() with true.
StatSync(disk, p) ==
  LET real == RealPath(disk, << >>, p, MaxLinkHops) IN
  IF real = << >> THEN [throws |-> TRUE]
  ELSE [throws |-> FALSE,
        isSymbolicLink |-> FALSE,
        isDirectory |-> NodeAt(disk, real).kind = "dir",
        isFile |-> NodeAt(disk, real).kind = "file",
        size |-> IF NodeAt(disk, real).kind = "file" THEN NodeAt(disk, real).size ELSE 0]

ExistsSync(disk, p) == RealPath(disk, << >>, p, MaxLinkHops) # << >>

\* fs.readdirSync(p): throws unless p resolves to a directory that can be
\* listed; otherwise the names in it.
ReaddirSync(disk, p) ==
  LET real == RealPath(disk, << >>, p, MaxLinkHops) IN
  IF real = << >> THEN [throws |-> TRUE]
  ELSE IF NodeAt(disk, real).kind # "dir" THEN [throws |-> TRUE]
  ELSE IF ~NodeAt(disk, real).readable THEN [throws |-> TRUE]
  ELSE [throws |-> FALSE, entries |-> NodeAt(disk, real).entries]

\* A depth test that lets every directory through.
TooDeepNever(currentDepth, maxDepth) == FALSE

\* collectExes: `if (currentDepth > maxDepth) return`.
TooDeep(currentDepth, maxDepth) == currentDepth > maxDepth

RECURSIVE CollectExes(_, _, _, _, _, _)
RECURSIVE CollectEntries(_, _, _, _, _, _, _)

\* A walk that gives up what it has collected when a directory cannot be
\* listed.
CollectExesGivesUp(disk, dir, rootDir, currentDepth, maxDepth, results) ==
  IF TooDeep(currentDepth, maxDepth) THEN results
  ELSE IF ReaddirSync(disk, dir).throws THEN << >>
  ELSE CollectEntries(disk, dir, rootDir, currentDepth, maxDepth,
                      ReaddirSync(disk, dir).entries, results)

\* collectExes(dir, rootDir, currentDepth, maxDepth, results): the value of
\* `results` when the call returns.
CollectExes(disk, dir, rootDir, currentDepth, maxDepth, results) ==
  IF TooDeep(currentDepth, maxDepth) THEN results
  ELSE IF ReaddirSync(disk, dir).throws THEN results
  ELSE CollectEntries(disk, dir, rootDir, currentDepth, maxDepth,
                      ReaddirSync(disk, dir).entries, results)

\* The for loop of collectExes over the entries not yet visited.
CollectEntries(disk, dir, rootDir, currentDepth, maxDepth, entries, results) ==
  IF entries = << >> THEN results
  ELSE
    LET entry == Head(entries)
        absolutePath == Append(dir, entry)
        stat == StatSync(disk, absolutePath)
        after ==
          IF stat.throws THEN results
          ELSE IF stat.isSymbolicLink THEN results
          ELSE IF stat.isDirectory
            THEN CollectExes(disk, absolutePath, rootDir, currentDepth + 1, maxDepth, results)
          ELSE IF stat.isFile /\ EndsWith(ToLowerCase(entry), ExeSuffix)
            THEN Append(results,
                        [absolutePath |-> absolutePath,
                         relativePath |-> SubSeq(absolutePath, Len(rootDir) + 1, Len(absolutePath)),
                         sizeBytes |-> stat.size])
          ELSE results
    IN CollectEntries(disk, dir, rootDir, currentDepth, maxDepth, Tail(entries), after)

\* The filter of listGameDirs on one child path.
IsGameDir(disk, p) ==
  LET s == StatSync(disk, p) IN
  IF s.throws THEN FALSE
  ELSE IF ~s.isDirectory \/ s.isSymbolicLink THEN FALSE
  ELSE ToLowerCase(p[Len(p)]) \notin EXCLUDED_FOLDER_NAMES

\* listGameDirs(scanPath) on a disk.
ListGameDirsOn(disk, scanPath) ==
  IF ~ExistsSync(disk, scanPath) THEN << >>
  ELSE IF ReaddirSync(disk, scanPath).throws THEN << >>
  ELSE LET joined == [i \in 1..Len(ReaddirSync(disk, scanPath).entries) |->
                        Append(scanPath, ReaddirSync(disk, scanPath).entries[i])]
           Keep(p) == IsGameDir(disk, p)
       IN SelectSeq(joined, Keep)

RECURSIVE AllGameDirs(_, _)
\* scanPaths: gameDirs after the loop over rootPaths.
AllGameDirs(disk, rootPaths) ==
  IF rootPaths = << >> THEN << >>
  ELSE ListGameDirsOn(disk, Head(rootPaths)) \o AllGameDirs(disk, Tail(rootPaths))

\* A progress report that counts the directory it names.
ProgressFoundAfter(nResults, accepted) == IF accepted THEN nResults + 1 ELSE nResults

\* scanPaths: the `found` of the event for a directory is results.length at
\* the top of the loop body, before the directory is examined.
ProgressFound(nResults, accepted) == nResults

\* An acceptance rule that takes every directory with a candidate.
AcceptsAnyCandidate(ranked) == Len(ranked) > 0

\* scanPaths: a directory is pushed when rawCandidates is not empty and
\* ranked[0].score is not below 0.
Accepts(ranked) == Len(ranked) > 0 /\ ranked[1].score >= 0

RECURSIVE ScanLoop(_, _, _, _, _)
\* scanPaths: the loop over gameDirs from index i on; `events` are the
\* onProgress calls made so far.
ScanLoop(disk, gameDirs, i, results, events) ==
  IF i > Len(gameDirs) THEN [results |-> results, events |-> events]
  ELSE
    LET gameRoot == gameDirs[i]
        dirName == gameRoot[Len(gameRoot)]
        rawCandidates == CollectExes(disk, gameRoot, gameRoot, 0, MAX_EXE_DEPTH, << >>)
        ranked == RankExes(rawCandidates, dirName)
        event == [current |-> dirName,
                  found |-> ProgressFound(Len(results), Accepts(ranked)),
                  total |-> Len(gameDirs)]
    IN ScanLoop(disk, gameDirs, i + 1,
                IF Accepts(ranked)
                  THEN Append(results,
                              [name |-> dirName, rootPath |-> gameRoot,
                               exePath |-> ranked[1].absolutePath,
                               exeCandidates |-> [j \in 1..Len(ranked) |-> ranked[j].absolutePath]])
                  ELSE results,
                Append(events, event))

\* scanPaths(rootPaths, onProgress) on a disk: the games returned and the
\* onProgress calls made, in order.
ScanPaths(disk, rootPaths) ==
  ScanLoop(disk, AllGameDirs(disk, rootPaths), 1, << >>, << >>)

-----------------------------------------------------------------------------
(* Disks the scanner is applied to *)

ScanRoot == <<<<"r">>>>
Outside == <<<<"x">>>>
MissingRoot == <<<<"n", "o", "w", "h", "e", "r", "e">>>>
LockedRoot == <<<<"l", "o", "c", "k", "e", "d">>>>

Dir(p, entries) == [path |-> p, kind |-> "dir", entries |-> entries, readable |-> TRUE]
LockedDir(p) == [path |-> p, kind |-> "dir", entries |-> << >>, readable |-> FALSE]
File(p, size) == [path |-> p, kind |-> "file", size |-> size]
Link(p, target) == [path |-> p, kind |-> "link", target |-> target]

BigFile == 2000000
SmallFile == 10

\* The directory outside every scan root that symbolic links point to, and
\* a directory that cannot be listed.
OutsideTree ==
  {Dir(Outside, <<<<"r", "e", "a", "l", ".", "e", "x", "e">>>>), File(Outside \o <<<<"r", "e", "a", "l", ".", "e", "x", "e">>>>, BigFile),
   LockedDir(LockedRoot)}

TreeKinds ==
  {"main", "upper", "noexe", "installer", "ranked", "tie", "linkfile", "linkdir",
   "cycle", "dangling", "locked", "lockedsub", "deep", "linkchild", "filechild"}

\* The nodes of a child `name` of `base`, by kind of tree.
Tree(kind, base, name) ==
  LET g == Append(base, name) IN
  CASE kind = "main" ->
         {Dir(g, <<name \o <<".", "e", "x", "e">>>>), File(Append(g, name \o <<".", "e", "x", "e">>), BigFile)}
    [] kind = "upper" ->
         {Dir(g, <<name \o <<".", "E", "X", "E">>>>), File(Append(g, name \o <<".", "E", "X", "E">>), BigFile)}
    [] kind = "noexe" ->
         {Dir(g, <<<<"r", "e", "a", "d", "m", "e", ".", "t", "x", "t">>>>), File(Append(g, <<"r", "e", "a", "d", "m", "e", ".", "t", "x", "t">>), SmallFile)}
    [] kind = "installer" ->
         {Dir(g, <<<<"s", "e", "t", "u", "p", ".", "e", "x", "e">>>>), File(Append(g, <<"s", "e", "t", "u", "p", ".", "e", "x", "e">>), SmallFile)}
    [] kind = "ranked" ->
         {Dir(g, <<<<"l", "a", "u", "n", "c", "h", "e", "r", ".", "e", "x", "e">>, <<"b", "i", "n">>>>), File(Append(g, <<"l", "a", "u", "n", "c", "h", "e", "r", ".", "e", "x", "e">>), SmallFile),
          Dir(Append(g, <<"b", "i", "n">>), <<name \o <<".", "e", "x", "e">>>>),
          File(g \o <<<<"b", "i", "n">>, name \o <<".", "e", "x", "e">>>>, BigFile)}
    [] kind = "tie" ->
         {Dir(g, <<<<"x", "1", ".", "e", "x", "e">>, <<"x", "2", ".", "e", "x", "e">>>>), File(Append(g, <<"x", "1", ".", "e", "x", "e">>), SmallFile),
          File(Append(g, <<"x", "2", ".", "e", "x", "e">>), SmallFile)}
    [] kind = "linkfile" ->
         {Dir(g, <<name \o <<".", "e", "x", "e">>>>), Link(Append(g, name \o <<".", "e", "x", "e">>), Outside \o <<<<"r", "e", "a", "l", ".", "e", "x", "e">>>>)}
    [] kind = "linkdir" ->
         {Dir(g, <<<<"s", "u", "b">>>>), Link(Append(g, <<"s", "u", "b">>), Outside)}
    [] kind = "cycle" ->
         {Dir(g, <<name \o <<".", "e", "x", "e">>, <<"l", "o", "o", "p">>>>), File(Append(g, name \o <<".", "e", "x", "e">>), BigFile),
          Link(Append(g, <<"l", "o", "o", "p">>), g)}
    [] kind = "dangling" ->
         {Dir(g, <<<<"g", "o", "n", "e", ".", "e", "x", "e">>>>), Link(Append(g, <<"g", "o", "n", "e", ".", "e", "x", "e">>), MissingRoot)}
    [] kind = "locked" -> {LockedDir(g)}
    [] kind = "lockedsub" ->
         {Dir(g, <<name \o <<".", "e", "x", "e">>, <<"s", "a", "v", "e", "s">>, <<"b", "i", "n">>>>),
          File(Append(g, name \o <<".", "e", "x", "e">>), BigFile),
          LockedDir(Append(g, <<"s", "a", "v", "e", "s">>)),
          Dir(Append(g, <<"b", "i", "n">>), <<<<"t", "o", "o", "l", ".", "e", "x", "e">>>>),
          File(g \o <<<<"b", "i", "n">>, <<"t", "o", "o", "l", ".", "e", "x", "e">>>>, SmallFile)}
    [] kind = "deep" ->
         {Dir(g, <<<<"d">>>>),
          Dir(g \o <<<<"d">>>>, <<<<"d">>>>),
          Dir(g \o <<<<"d">>, <<"d">>>>, <<<<"d">>>>),
          Dir(g \o <<<<"d">>, <<"d">>, <<"d">>>>, <<<<"d">>>>),
          Dir(g \o <<<<"d">>, <<"d">>, <<"d">>, <<"d">>>>, <<<<"d">>>>),
          Dir(g \o <<<<"d">>, <<"d">>, <<"d">>, <<"d">>, <<"d">>>>, <<name \o <<".", "e", "x", "e">>, <<"d">>>>),
          File(g \o <<<<"d">>, <<"d">>, <<"d">>, <<"d">>, <<"d">>, name \o <<".", "e", "x", "e">>>>, BigFile),
          Dir(g \o <<<<"d">>, <<"d">>, <<"d">>, <<"d">>, <<"d">>, <<"d">>>>, <<name \o <<".", "e", "x", "e">>>>),
          File(g \o <<<<"d">>, <<"d">>, <<"d">>, <<"d">>, <<"d">>, <<"d">>, name \o <<".", "e", "x", "e">>>>, BigFile)}
    [] kind = "linkchild" -> {Link(g, Outside)}
    [] kind = "filechild" -> {File(g, BigFile)}

FirstName == <<"g", "a", "m", "e">>
SecondNames == {<<"a", "b">>, <<"P", "r", "e", "f", "i", "x", "e", "s">>}

\* A scan root with one or two children, and the tree outside it.
Disks ==
  {OutsideTree \cup {Dir(ScanRoot, <<FirstName>>)} \cup Tree(k, ScanRoot, FirstName) :
     k \in TreeKinds}
  \cup
  {OutsideTree \cup {Dir(ScanRoot, <<FirstName, n>>)}
     \cup Tree(k1, ScanRoot, FirstName) \cup Tree(k2, ScanRoot, n) :
     k1 \in TreeKinds, k2 \in TreeKinds, n \in SecondNames}

RootPathLists == {<<ScanRoot>>, <<MissingRoot, LockedRoot, ScanRoot>>}

-----------------------------------------------------------------------------
(* Function calls: a call applies one function to the arguments chosen at   *)
(* the start and records what it returned.                                  *)

\* Everything but the arguments of the call: nothing was launched or scanned.
Idle ==
  /\ registry = << >>
  /\ children = << >>
  /\ now = 0
  /\ prefixDirs = {}
  /\ ev = NoEv
  /\ scanState = ScanStateInit
  /\ games = << >>
  /\ nextId = 0
  /\ scanPathsSetting = << >>
  /\ runs = << >>
  /\ wsLog = << >>
  /\ unlinkJob = NoJob
  /\ artwork = << >>
  /\ steamDisk = NoSteam
  /\ launchApi = NoApi
  /\ pad = NoPad
  /\ opCount = [lib |-> 0, scans |-> 0]
  /\ result = NoCall

IdleVars == <<launchVars, scanVars, artwork, ev, args, steamDisk, launchApi, pad>>

InitWalk ==
  /\ Idle
  /\ args \in [fn : {"scanPaths"}, disk : Disks, rootPaths : RootPathLists]

\* scanPaths(rootPaths, onProgress) is called and returns.
ScanCall ==
  /\ args.fn = "scanPaths"
  /\ result = NoCall
  /\ result' = [fn |-> "scanPaths"] @@ ScanPaths(args.disk, args.rootPaths)
  /\ UNCHANGED IdleVars

NextWalk == ScanCall

SpecWalk == InitWalk /\ [][NextWalk]_vars

-----------------------------------------------------------------------------
(* collectExes step by step: `result` holds the call stack of the          *)
(* recursion, one frame per directory being listed with the entries not    *)
(* yet visited, the candidates pushed so far and the directories handed    *)
(* to readdirSync.                                                         *)

\* The start of a call collectExes(dir, rootDir, currentDepth, ...) made in
\* walk state w, given what readdirSync(dir) answers: the call returns at
\* once when the directory is too deep or cannot be listed, and otherwise
\* begins the loop over its entries.
EnterDir(w, dir, currentDepth, listing) ==
  IF TooDeep(currentDepth, args.maxDepth) THEN w
  ELSE IF listing.throws
    THEN [w EXCEPT !.listed = Append(@, dir)]
    ELSE [w EXCEPT !.listed = Append(@, dir),
                   !.stack = Append(@, [dir |-> dir, currentDepth |-> currentDepth,
                                        entries |-> listing.entries])]

\* The walk is over when the outermost call has returned.
Settle(w) == [w EXCEPT !.returned = (w.stack = << >>)]

CollectRoots == {ScanRoot \o <<FirstName>>}

InitCollect ==
  /\ Idle
  /\ args \in [fn : {"collectExes"}, disk : Disks, dir : CollectRoots, maxDepth : {MAX_EXE_DEPTH}]

\* scanPaths calls collectExes(gameRoot, gameRoot, 0, MAX_EXE_DEPTH, []).
CollectBegin ==
  /\ args.fn = "collectExes"
  /\ result = NoCall
  /\ \E listing \in {ReaddirSync(args.disk, args.dir)} :
       result' = Settle(EnterDir([fn |-> "collectExes", stack |-> << >>, results |-> << >>,
                                  listed |-> << >>, returned |-> FALSE],
                                 args.dir, 0, listing))
  /\ UNCHANGED IdleVars

\* One turn of the for loop in the innermost call.
CollectEntry ==
  /\ result.fn = "collectExes"
  /\ result.stack # << >>
  /\ result.stack[Len(result.stack)].entries # << >>
  /\ \E top \in {result.stack[Len(result.stack)]} :
     \E absolutePath \in {Append(top.dir, Head(top.entries))} :
     \E stat \in {StatSync(args.disk, absolutePath)} :
     \E listing \in {ReaddirSync(args.disk, absolutePath)} :
     \E advanced \in {[result EXCEPT !.stack[Len(result.stack)].entries = Tail(@)]} :
       result' =
          IF stat.throws THEN advanced
          ELSE IF stat.isSymbolicLink THEN advanced
          ELSE IF stat.isDirectory
            THEN EnterDir(advanced, absolutePath, top.currentDepth + 1, listing)
          ELSE IF stat.isFile /\ EndsWith(ToLowerCase(Head(top.entries)), ExeSuffix)
            THEN [advanced EXCEPT !.results =
                    Append(@, [absolutePath |-> absolutePath,
                               relativePath |-> SubSeq(absolutePath, Len(args.dir) + 1,
                                                        Len(absolutePath)),
                               sizeBytes |-> stat.size])]
          ELSE advanced
  /\ UNCHANGED IdleVars

\* The for loop of the innermost call is done and the call returns.
CollectReturn ==
  /\ result.fn = "collectExes"
  /\ result.stack # << >>
  /\ result.stack[Len(result.stack)].entries = << >>
  /\ result' = Settle([result EXCEPT !.stack = SubSeq(@, 1, Len(@) - 1)])
  /\ UNCHANGED IdleVars

NextCollect == CollectBegin \/ CollectEntry \/ CollectReturn

\* The walk is one synchronous call: it runs on until it returns.
SpecCollect == InitCollect /\ [][NextCollect]_vars /\ WF_vars(NextCollect)

-----------------------------------------------------------------------------
(* Launch environment: env-builder.ts.  An environment is a function from   *)
(* variable names to strings.                                               *)

\* A spread in which the object spread first keeps its values.
SpreadFirstWins(a, b) ==
  [k \in (DOMAIN a) \cup (DOMAIN b) |-> IF k \in DOMAIN a THEN a[k] ELSE b[k]]

\* { ...a, ...b }: the keys of both, b's value where both have the key.
Spread(a, b) ==
  [k \in (DOMAIN a) \cup (DOMAIN b) |-> IF k \in DOMAIN b THEN b[k] ELSE a[k]]

EmptyEnv == [k \in {} |-> ""]

\* The loop over Object.entries(process.env): entries with a defined value.
Inherited(processEnv) ==
  [k \in {x \in DOMAIN processEnv : processEnv[x].defined} |-> processEnv[k].value]

\* `if (steamRoot)`: neither null nor the empty string.
Truthy(steamRoot) == steamRoot.found /\ steamRoot.path # ""

\* protonVars of buildProtonEnv.
ProtonVars(config, steamRoot) ==
  LET base == [STEAM_COMPAT_DATA_PATH |-> config.winePrefix,
               STEAM_COMPAT_APP_ID |->
                 IF "steamAppId" \in DOMAIN config THEN config.steamAppId ELSE "0",
               PROTON_LOG |-> "1"]
  IN IF Truthy(steamRoot)
       THEN Spread(base, [STEAM_COMPAT_CLIENT_INSTALL_PATH |-> steamRoot.path])
       ELSE base

\* buildProtonEnv(config, steamRoot), with process.env as a third argument.
BuildProtonEnv(config, steamRoot, processEnv) ==
  Spread(Spread(Inherited(processEnv), ProtonVars(config, steamRoot)),
         IF "extraEnv" \in DOMAIN config THEN config.extraEnv ELSE EmptyEnv)

Defined(v) == [defined |-> TRUE, value |-> v]
Undefined == [defined |-> FALSE, value |-> ""]

\* process.env of the launcher: plain, with an undefined entry, started with
\* PROTON_LOG set, started from inside Steam.
ProcessEnvs ==
  { [PATH |-> Defined("/usr/bin")],
    [PATH |-> Defined("/usr/bin"), LANG |-> Undefined],
    [PATH |-> Defined("/usr/bin"), PROTON_LOG |-> Defined("2"),
     STEAM_COMPAT_APP_ID |-> Defined("7")],
    [PATH |-> Defined("/usr/bin"),
     STEAM_COMPAT_CLIENT_INSTALL_PATH |-> Defined("/ambient/steam")] }

BaseConfig == [exePath |-> "/games/g/g.exe", protonPath |-> "/proton", winePrefix |-> "/prefixes/abc-123"]

ExtraEnvs ==
  { EmptyEnv,
    [PROTON_LOG |-> "0"],
    [STEAM_COMPAT_APP_ID |-> "999"],
    [DXVK_HUD |-> "fps", MANGOHUD |-> "1"],
    [STEAM_COMPAT_CLIENT_INSTALL_PATH |-> "/custom/steam", PATH |-> "/opt/bin"] }

LaunchConfigs ==
  {BaseConfig}
  \cup {BaseConfig @@ [steamAppId |-> id] : id \in {"0", "271590"}}
  \cup {BaseConfig @@ [extraEnv |-> x] : x \in ExtraEnvs}
  \cup {BaseConfig @@ [steamAppId |-> id, extraEnv |-> x] : id \in {"0", "271590"}, x \in ExtraEnvs}

SteamRoots == {[found |-> FALSE, path |-> ""], [found |-> TRUE, path |-> "/home/user/.steam/steam"]}

InitEnv ==
  /\ Idle
  /\ args \in [fn : {"buildProtonEnv"}, config : LaunchConfigs, steamRoot : SteamRoots,
               processEnv : ProcessEnvs]

\* buildProtonEnv(config, steamRoot) is called and returns.
BuildEnvCall ==
  /\ args.fn = "buildProtonEnv"
  /\ result = NoCall
  /\ result' = [fn |-> "buildProtonEnv",
                env |-> BuildProtonEnv(args.config, args.steamRoot, args.processEnv)]
  /\ UNCHANGED IdleVars

NextEnv == BuildEnvCall

SpecEnv == InitEnv /\ [][NextEnv]_vars

-----------------------------------------------------------------------------
(* Calls of scoreExe *)

\* Names of files the walker collects: they end in .exe in some letter case.
ExeFileNames ==
  { <<"g", "a", "m", "e", ".", "e", "x", "e">>,
    <<"G", "a", "m", "e", ".", "E", "X", "E">>,
    <<"a", "b", ".", "e", "x", "e">>,
    <<"a", "b", ".", "E", "X", "E">>,
    <<"a", "b", ".", "E", "x", "e">>,
    <<"l", "a", "u", "n", "c", "h", "e", "r", ".", "e", "x", "e">>,
    <<"m", "y", "-", "g", "a", "m", "e", ".", "e", "x", "e">>,
    <<"g", ".", "e", "x", "e">>,
    <<"s", "e", "t", "u", "p", ".", "e", "x", "e">>,
    <<"d", "x", "s", "e", "t", "u", "p", ".", "e", "x", "e">>,
    <<"c", "r", "a", "s", "h", "r", "e", "p", "o", "r", "t", ".", "e", "x", "e">>,
    <<"u", "p", "d", "a", "t", ".", "E", "X", "E">> }

ReferenceNames ==
  { <<"g", "a", "m", "e">>,
    <<"a", "b">>,
    <<"M", "y", " ", "G", "a", "m", "e">>,
    <<"a", "b", "c">>,
    <<"G", "a", "m", "e", "!">>,
    <<"x">> }

\* Where the file lies below the game root: in it, one directory down, or
\* two directories down.
RelativeDirs == {<< >>, <<<<"b", "i", "n">>>>, <<<<"b", "i", "n">>, <<"x", "6", "4">>>>}

\* File sizes on both sides of the size test of scoreExe.
OneMegabyte == 1000000
OverOneMegabyte == 1000001
FileSizes == {SmallFile, OneMegabyte, OverOneMegabyte, BigFile}

ExeCandidates ==
  {[absolutePath |-> <<ScanRoot[1], FirstName>> \o d \o <<n>>,
    relativePath |-> d \o <<n>>,
    sizeBytes |-> size] :
     n \in ExeFileNames, d \in RelativeDirs, size \in FileSizes}

\* Candidate lists handed to rankExes: up to MaxRanked candidates, in any
\* order and with repetitions, from one game directory.
MaxRanked == 3

RankedFiles ==
  { [absolutePath |-> <<ScanRoot[1], FirstName>> \o f.dir \o <<f.name>>,
     relativePath |-> f.dir \o <<f.name>>,
     sizeBytes |-> f.size] :
      f \in { [name |-> <<"g", "a", "m", "e", ".", "e", "x", "e">>, dir |-> << >>, size |-> BigFile],
              [name |-> <<"g", "a", "m", "e", ".", "e", "x", "e">>,
               dir |-> <<<<"b", "i", "n">>, <<"x", "6", "4">>>>, size |-> BigFile],
              [name |-> <<"a", "b", ".", "e", "x", "e">>, dir |-> << >>, size |-> SmallFile],
              [name |-> <<"g", ".", "e", "x", "e">>, dir |-> << >>, size |-> SmallFile],
              [name |-> <<"s", "e", "t", "u", "p", ".", "e", "x", "e">>, dir |-> << >>, size |-> SmallFile] } }

CandidateLists == UNION {[1..n -> RankedFiles] : n \in 0..MaxRanked}

RankReferenceNames == {<<"g", "a", "m", "e">>, <<"a", "b">>}

InitScore ==
  /\ Idle
  /\ \/ args \in [fn : {"scoreExe"}, candidate : ExeCandidates, gameDirectoryName : ReferenceNames]
     \/ args \in [fn : {"rankExes"}, candidates : CandidateLists, gameDirectoryName : RankReferenceNames]

\* scoreExe(candidate, gameDirectoryName) is called and returns.
ScoreCall ==
  /\ args.fn = "scoreExe"
  /\ result = NoCall
  /\ result' = [fn |-> "scoreExe", score |-> ScoreExe(args.candidate, args.gameDirectoryName)]
  /\ UNCHANGED IdleVars

\* rankExes(candidates, gameDirectoryName) is called and returns.
RankCall ==
  /\ args.fn = "rankExes"
  /\ result = NoCall
  /\ result' = [fn |-> "rankExes", ranked |-> RankExes(args.candidates, args.gameDirectoryName)]
  /\ UNCHANGED IdleVars

NextScore == ScoreCall \/ RankCall

SpecScore == InitScore /\ [][NextScore]_vars

-----------------------------------------------------------------------------
(* Runtime versions: version-manager.ts *)

IsDigit(c) == c \in DigitChars

DigitValue(c) ==
  CASE c = "0" -> 0 [] c = "1" -> 1 [] c = "2" -> 2 [] c = "3" -> 3 [] c = "4" -> 4
    [] c = "5" -> 5 [] c = "6" -> 6 [] c = "7" -> 7 [] c = "8" -> 8 [] c = "9" -> 9

RECURSIVE ParseInt(_)
\* parseInt(digits, 10) of a string of decimal digits.
ParseInt(digits) ==
  IF digits = << >> THEN 0
  ELSE 10 * ParseInt(SubSeq(digits, 1, Len(digits) - 1)) + DigitValue(digits[Len(digits)])

\* The end of the longest run of digits that starts at i: what \d+ takes.
RunEnd(s, i) ==
  CHOOSE k \in i..Len(s) :
    /\ \A j \in i..k : IsDigit(s[j])
    /\ k = Len(s) \/ ~IsDigit(s[k + 1])

VersionSeparators == {".", "-"}

\* The positions where /(\d+)[.\-](\d+)/ matches: digits, one separator and
\* a digit behind it.
PairStarts(s) ==
  {i \in 1..Len(s) :
     /\ IsDigit(s[i])
     /\ RunEnd(s, i) + 2 <= Len(s)
     /\ s[RunEnd(s, i) + 1] \in VersionSeparators
     /\ IsDigit(s[RunEnd(s, i) + 2])}

MinOf(S) == CHOOSE x \in S : \A y \in S : x <= y

\* A sort key that takes the major number only.
ProtonSortKeyMajorOnly(dirName) ==
  LET digitsAt == {i \in 1..Len(dirName) : IsDigit(dirName[i])}
  IN IF digitsAt = {} THEN 0
     ELSE ParseInt(SubSeq(dirName, MinOf(digitsAt), RunEnd(dirName, MinOf(digitsAt)))) * 1000

\* protonSortKey(dirName): String.prototype.match returns the leftmost match.
ProtonSortKey(dirName) ==
  LET digitsAt == {i \in 1..Len(dirName) : IsDigit(dirName[i])}
  IN IF PairStarts(dirName) = {}
       THEN IF digitsAt = {} THEN 0
            ELSE ParseInt(SubSeq(dirName, MinOf(digitsAt), RunEnd(dirName, MinOf(digitsAt)))) * 1000
       ELSE LET i == MinOf(PairStarts(dirName))
                e == RunEnd(dirName, i)
            IN ParseInt(SubSeq(dirName, i, e)) * 1000
               + ParseInt(SubSeq(dirName, e + 2, RunEnd(dirName, e + 2)))

-----------------------------------------------------------------------------
(* Calls of protonSortKey.  A directory name is written from its parts: the *)
(* text before the version, the version numbers in decimal, the text behind *)
(* them.                                                                    *)

MaxVersion == 12   \* the numbers 0..MaxVersion occur as major and minor

DigitOf(n) ==
  CASE n = 0 -> "0" [] n = 1 -> "1" [] n = 2 -> "2" [] n = 3 -> "3" [] n = 4 -> "4"
    [] n = 5 -> "5" [] n = 6 -> "6" [] n = 7 -> "7" [] n = 8 -> "8" [] n = 9 -> "9"

RECURSIVE Decimal(_)
\* The decimal digits of a number.
Decimal(n) == IF n < 10 THEN <<DigitOf(n)>> ELSE Decimal(n \div 10) \o <<DigitOf(n % 10)>>

VersionNumbers == (0..MaxVersion) \cup {20, 100}

NamePrefixes == {<<"P", "r", "o", "t", "o", "n", " ">>, <<"G", "E", "-", "P", "r", "o", "t", "o", "n">>, <<"P", "r", "o", "t", "o", "n", "-">>, << >>}
PairSuffixes == {<< >>, <<"-", "5">>, <<" ", "(", "B", "e", "t", "a", ")">>, <<".", "1">>}
SingleSuffixes == {<< >>, <<" ", "(", "B", "e", "t", "a", ")">>, <<"-", "b", "e", "t", "a">>}
PlainNames == {<< >>, <<"a", "b", "c">>, <<"P", "r", "o", "t", "o", "n", " ", "-", " ", "E", "x", "p", "e", "r", "i", "m", "e", "n", "t", "a", "l">>, <<"P", "r", "o", "t", "o", "n", ".">>}

\* The parts of a directory name: a version pair, a single number, or no
\* number at all.
NameParts ==
  [shape : {"pair"}, prefix : NamePrefixes, major : VersionNumbers,
   separator : VersionSeparators, minor : VersionNumbers, suffix : PairSuffixes]
  \cup [shape : {"single"}, prefix : NamePrefixes, major : VersionNumbers, suffix : SingleSuffixes]
  \cup [shape : {"plain"}, text : PlainNames]

\* The directory name with these parts.
NameOf(parts) ==
  CASE parts.shape = "pair" ->
         parts.prefix \o Decimal(parts.major) \o <<parts.separator>>
           \o Decimal(parts.minor) \o parts.suffix
    [] parts.shape = "single" -> parts.prefix \o Decimal(parts.major) \o parts.suffix
    [] parts.shape = "plain" -> parts.text

InitSortKey ==
  /\ Idle
  /\ \E parts \in NameParts :
       args = [fn |-> "protonSortKey", parts |-> parts, dirName |-> NameOf(parts)]

\* protonSortKey(dirName) is called and returns.
SortKeyCall ==
  /\ args.fn = "protonSortKey"
  /\ result = NoCall
  /\ result' = [fn |-> "protonSortKey", key |-> ProtonSortKey(args.dirName)]
  /\ UNCHANGED IdleVars

NextSortKey == SortKeyCall

SpecSortKey == InitSortKey /\ [][NextSortKey]_vars

-----------------------------------------------------------------------------
(* Controller input: input-map.ts *)

\* Axis values are counted in hundredths: 100 is the value 1.0.
AXIS_THRESHOLD == 50

\* Math.abs(value).
Abs(value) == IF value < 0 THEN 0 - value ELSE value

\* axisToAction(axisName, value).
AxisToAction(axisName, value) ==
  IF Abs(value) < AXIS_THRESHOLD THEN Null
  ELSE IF axisName = "leftStickX" \/ axisName = "rightStickX"
    THEN IF value < 0 THEN "navigate-left" ELSE "navigate-right"
  ELSE IF axisName = "leftStickY" \/ axisName = "rightStickY"
    THEN IF value < 0 THEN "navigate-up" ELSE "navigate-down"
  ELSE Null

MaxAxisValue == 100   \* axis values run from -MaxAxisValue to MaxAxisValue

AxisNames == {"leftStickX", "leftStickY", "rightStickX", "rightStickY",
              "leftTrigger", "rightTrigger", "someOtherAxis"}
AxisValues == (0 - MaxAxisValue)..MaxAxisValue

InitAxis ==
  /\ Idle
  /\ args \in [fn : {"axisToAction"}, axisName : AxisNames, value : AxisValues]

\* axisToAction(axisName, value) is called and returns.
AxisCall ==
  /\ args.fn = "axisToAction"
  /\ result = NoCall
  /\ result' = [fn |-> "axisToAction", action |-> AxisToAction(args.axisName, args.value)]
  /\ UNCHANGED IdleVars

NextAxis == AxisCall

SpecAxis == InitAxis /\ [][NextAxis]_vars

-----------------------------------------------------------------------------
(* Gamepad polling in the frontend: controller.js *)

MaxPads == 2        \* gamepads connected at the same time
MaxListeners == 2   \* calls of startGamepadPolling that register listeners

\* _startLoop(): sets _polling and requests the first animation frame.
StartLoop(p) == IF p.polling THEN p ELSE [p EXCEPT !.polling = TRUE]

\* _stopLoop(): clears _polling and cancels the requested frame.
StopLoop(p) == IF ~p.polling THEN p ELSE [p EXCEPT !.polling = FALSE]

\* The "gamepadconnected" listener.
OnGamepadConnected(p) ==
  LET q == [p EXCEPT !.connectedCount = @ + 1]
  IN IF ~q.hidden THEN StartLoop(q) ELSE q

\* The "gamepaddisconnected" listener.
OnGamepadDisconnected(p) ==
  LET q == [p EXCEPT !.connectedCount = IF @ - 1 < 0 THEN 0 ELSE @ - 1]
  IN IF q.connectedCount = 0 THEN StopLoop(q) ELSE q

\* The "visibilitychange" listener.
OnVisibilityChange(p) ==
  IF p.hidden THEN StopLoop(p)
  ELSE IF p.connectedCount > 0 THEN StartLoop(p)
  ELSE p

Listener(event, p) ==
  CASE event = "gamepadconnected" -> OnGamepadConnected(p)
    [] event = "gamepaddisconnected" -> OnGamepadDisconnected(p)
    [] event = "visibilitychange" -> OnVisibilityChange(p)

RECURSIVE Dispatch(_, _, _)
\* The browser calls every registered listener of the event, one after the
\* other; addEventListener with a new function object adds a listener each
\* time, and nothing removes one.
Dispatch(event, p, n) ==
  IF n = 0 THEN p ELSE Dispatch(event, Listener(event, p), n - 1)

\* startGamepadPolling().
StartGamepadPolling ==
  /\ IF pad.started THEN pad' = pad
     ELSE /\ pad.listeners < MaxListeners
          /\ LET q == [pad EXCEPT !.started = TRUE,
                                   !.listeners = @ + 1,
                                   !.connectedCount = @ + pad.pads]
             IN pad' = IF q.connectedCount > 0 /\ ~q.hidden THEN StartLoop(q) ELSE q
  /\ ev' = [op |-> "startGamepadPolling"]
  /\ UNCHANGED <<launchVars, scanVars, artwork, args, result, steamDisk, launchApi>>

\* stopGamepadPolling().
StopGamepadPolling ==
  /\ pad' = StopLoop([pad EXCEPT !.started = FALSE, !.connectedCount = 0])
  /\ ev' = [op |-> "stopGamepadPolling"]
  /\ UNCHANGED <<launchVars, scanVars, artwork, args, result, steamDisk, launchApi>>

\* A gamepad is plugged in: the browser fires "gamepadconnected".
GamepadConnected ==
  /\ pad.pads < MaxPads
  /\ pad' = Dispatch("gamepadconnected", [pad EXCEPT !.pads = @ + 1], pad.listeners)
  /\ ev' = [op |-> "gamepadconnected"]
  /\ UNCHANGED <<launchVars, scanVars, artwork, args, result, steamDisk, launchApi>>

\* A gamepad is unplugged: the browser fires "gamepaddisconnected".
GamepadDisconnected ==
  /\ pad.pads > 0
  /\ pad' = Dispatch("gamepaddisconnected", [pad EXCEPT !.pads = @ - 1], pad.listeners)
  /\ ev' = [op |-> "gamepaddisconnected"]
  /\ UNCHANGED <<launchVars, scanVars, artwork, args, result, steamDisk, launchApi>>

\* The tab is hidden or shown: document.hidden changes and the browser
\* fires "visibilitychange".
VisibilityChange ==
  /\ pad' = Dispatch("visibilitychange", [pad EXCEPT !.hidden = ~@], pad.listeners)
  /\ ev' = [op |-> "visibilitychange"]
  /\ UNCHANGED <<launchVars, scanVars, artwork, args, result, steamDisk, launchApi>>

InitPad == Idle /\ args = NoCall

NextPad ==
  \/ StartGamepadPolling \/ StopGamepadPolling
  \/ GamepadConnected \/ GamepadDisconnected \/ VisibilityChange

SpecPad == InitPad /\ [][NextPad]_vars

-----------------------------------------------------------------------------
(* Detection of the installed versions: version-manager.ts *)

STEAM_ROOTS ==
  << "~/.steam/steam",
     "~/.local/share/Steam",
     "~/.var/app/com.valvesoftware.Steam/.local/share/Steam" >>

MaxDiskOps == 2   \* installs and removals in one behaviour

ProtonMarker == <<"p", "r", "o", "t", "o", "n">>

\* The names that occur in a library folder, in the order readdirSync
\* returns them.
CommonDirNames == << <<"P", "r", "o", "t", "o", "n", " ", "9", ".", "0">>, <<"p", "r", "o", "t", "o", "n", "-", "9", ".", "0">>, <<"G", "E", "-", "P", "r", "o", "t", "o", "n", "9", "-", "2", "0">>, <<"S", "t", "e", "a", "m", "w", "o", "r", "k", "s", " ", "S", "h", "a", "r", "e", "d">> >>

\* An entry of a library folder is absent, a directory with the launch
\* script, a directory without it, or a file.
EntryStates == {"absent", "valid", "noscript", "file"}

\* What is put in the place of an entry: the first name occurs in every
\* state, the others are installed whole or removed.
EntryStatesOf(i) == IF i = 1 THEN EntryStates ELSE {"absent", "valid"}

NoEntries == [i \in DOMAIN CommonDirNames |-> "absent"]

\* steamapps/common under a Steam root: the folder itself, however the root
\* is reached (the first root may be a symbolic link to the second).
CommonOf(disk, r) ==
  IF disk.roots[r].kind = "link" THEN disk.roots[disk.roots[r].to] ELSE disk.roots[r]

\* buildProtonId(dirName): lower case, every run of other characters than
\* a-z0-9 becomes one hyphen, hyphens at both ends are removed.
BuildProtonId(dirName) ==
  LET lower == ToLowerCase(dirName)
      Kept(i) == IsAlnum(lower[i]) \/ i = 1 \/ IsAlnum(lower[i - 1])
      kept == SelectSeq([i \in 1..Len(lower) |-> i], Kept)
      hyphenated == [k \in 1..Len(kept) |->
                       IF IsAlnum(lower[kept[k]]) THEN lower[kept[k]] ELSE "-"]
      from == IF hyphenated # << >> /\ hyphenated[1] = "-" THEN 2 ELSE 1
      to == IF hyphenated # << >> /\ hyphenated[Len(hyphenated)] = "-"
              THEN Len(hyphenated) - 1 ELSE Len(hyphenated)
  IN SubSeq(hyphenated, from, to)

\* buildProtonLabel(dirName).
BuildProtonLabel(dirName) == dirName

\* A validity test that takes every directory.
IsProtonDirectoryAny(state) == TRUE

\* isProtonDirectory(dirPath): existsSync(join(dirPath, "proton")).
IsProtonDirectory(state) == state = "valid"

\* scanCommonDir(commonPath) for the common folder of root r.
ScanCommonDir(disk, r) ==
  IF CommonOf(disk, r).kind = "missing" THEN << >>
  ELSE
    LET entries == CommonOf(disk, r).entries
        Hit(i) == /\ Includes(ToLowerCase(CommonDirNames[i]), ProtonMarker)
                  /\ entries[i] \in {"valid", "noscript"}
                  /\ IsProtonDirectory(entries[i])
        hits == SelectSeq([i \in DOMAIN CommonDirNames |-> i], Hit)
    IN [k \in 1..Len(hits) |->
          [id |-> BuildProtonId(CommonDirNames[hits[k]]),
           path |-> <<STEAM_ROOTS[r], "steamapps", "common", CommonDirNames[hits[k]]>>,
           label |-> BuildProtonLabel(CommonDirNames[hits[k]])]]

RECURSIVE DedupeByPath(_, _)
\* detectProtonVersions: the loop that skips a path already seen.
DedupeByPath(found, versions) ==
  IF found = << >> THEN versions
  ELSE DedupeByPath(Tail(found),
                    IF \E i \in DOMAIN versions : versions[i].path = Head(found).path
                      THEN versions ELSE Append(versions, Head(found)))

RECURSIVE InsertByKey(_, _)
\* Array.prototype.sort with protonSortKey(b.label) - protonSortKey(a.label):
\* stable, newest first.
InsertByKey(sorted, v) ==
  IF sorted = << >> THEN <<v>>
  ELSE IF ProtonSortKey(Head(sorted).label) >= ProtonSortKey(v.label)
    THEN <<Head(sorted)>> \o InsertByKey(Tail(sorted), v)
    ELSE <<v>> \o sorted

RECURSIVE SortByKey(_)
SortByKey(versions) ==
  IF versions = << >> THEN << >>
  ELSE InsertByKey(SortByKey(SubSeq(versions, 1, Len(versions) - 1)), versions[Len(versions)])

\* detectProtonVersions().
DetectProtonVersions(disk) ==
  SortByKey(DedupeByPath(ScanCommonDir(disk, 1) \o ScanCommonDir(disk, 2)
                           \o ScanCommonDir(disk, 3), << >>))

\* findProtonVersion(id): Array.prototype.find on a fresh detection.
FindProtonVersion(disk, id) ==
  LET versions == DetectProtonVersions(disk)
      hits == {i \in DOMAIN versions : versions[i].id = id}
  IN IF hits = {} THEN [found |-> FALSE]
     ELSE [found |-> TRUE, version |-> versions[MinOf(hits)]]

\* The library folders at the start: the second root holds the library with
\* nothing or two versions installed; the first root is missing, a folder of
\* its own, or a symbolic link to the second; the third root is missing.
InitialEntries ==
  { NoEntries,
    [i \in DOMAIN CommonDirNames |-> IF i \in {1, 2} THEN "valid" ELSE "absent"] }

InitialFirstRoots ==
  { [kind |-> "missing"], [kind |-> "dir", entries |-> NoEntries], [kind |-> "link", to |-> 2] }

InitDetect ==
  /\ registry = << >>
  /\ children = << >>
  /\ now = 0
  /\ prefixDirs = {}
  /\ ev = NoEv
  /\ scanState = ScanStateInit
  /\ games = << >>
  /\ nextId = 0
  /\ scanPathsSetting = << >>
  /\ runs = << >>
  /\ wsLog = << >>
  /\ unlinkJob = NoJob
  /\ opCount = [lib |-> 0, scans |-> 0]
  /\ artwork = << >>
  /\ args = NoCall
  /\ result = NoCall
  /\ launchApi = NoApi
  /\ pad = NoPad
  /\ \E first \in InitialFirstRoots, entries \in InitialEntries :
       steamDisk = [roots |-> <<first, [kind |-> "dir", entries |-> entries],
                               [kind |-> "missing"]>>,
                    ops |-> 0]

DetectUnchanged == <<launchVars, scanVars, artwork, launchApi, pad>>

\* Something outside the launcher installs, replaces or removes entry i of
\* the library folder of root r.
ChangeEntry(r, i, state) ==
  /\ steamDisk.ops < MaxDiskOps
  /\ steamDisk.roots[r].kind = "dir"
  /\ steamDisk.roots[r].entries[i] # state
  /\ steamDisk' = [steamDisk EXCEPT !.roots[r].entries[i] = state, !.ops = @ + 1]
  /\ ev' = [op |-> "changeEntry"]
  /\ UNCHANGED <<DetectUnchanged, args, result>>

\* detectProtonVersions() is called and returns.
DetectCall ==
  /\ args' = [fn |-> "detectProtonVersions"]
  /\ result' = [fn |-> "detectProtonVersions", versions |-> DetectProtonVersions(steamDisk)]
  /\ ev' = [op |-> "detect"]
  /\ UNCHANGED <<DetectUnchanged, steamDisk>>

LookupIds == { <<"p", "r", "o", "t", "o", "n", "-", "9", "-", "0">>, <<"g", "e", "-", "p", "r", "o", "t", "o", "n", "9", "-", "2", "0">>, <<"p", "r", "o", "t", "o", "n", "-", "8", "-", "0", "-", "5">> }

\* findProtonVersion(id) is called and returns.
FindCall(id) ==
  /\ args' = [fn |-> "findProtonVersion", id |-> id]
  /\ result' = [fn |-> "findProtonVersion"] @@ FindProtonVersion(steamDisk, id)
  /\ ev' = [op |-> "find"]
  /\ UNCHANGED <<DetectUnchanged, steamDisk>>

ChangeEntryStep ==
  \E r \in DOMAIN STEAM_ROOTS, i \in DOMAIN CommonDirNames :
    \E state \in EntryStatesOf(i) : ChangeEntry(r, i, state)
FindCallStep == \E id \in LookupIds : FindCall(id)

NextDetect == ChangeEntryStep \/ DetectCall \/ FindCallStep

SpecDetect == InitDetect /\ [][NextDetect]_vars

-----------------------------------------------------------------------------
(* Claims about the launch registry *)

LiveChildren(g) ==
  {h \in DOMAIN children : children[h].gameId = g /\ children[h].state = "live"}

RanHandleExit(e) == e.op = "exit" \/ (e.op = "kill" /\ e.result = "error-event")

\* C1: for every gameId at most one process started by launch() is alive, and
\* the registry holds at most one record for it, whose process is that one.
C1_OneLiveProcessPerGame ==
  \A g \in GameIds :
    /\ Cardinality(LiveChildren(g)) <= 1
    /\ RegistryHas(registry, g) => registry[g].gameId = g

\* C2: the exit handling of a launch has run exactly once when its process has
\* ended and not at all while the process is alive.
C2_ExitHandledExactlyOnce ==
  \A h \in DOMAIN children :
    /\ children[h].state = "live" => children[h].exitHandled = 0
    /\ children[h].state = "exited" => children[h].exitHandled = 1

\* C3: whenever handleExit has just run, the registry entry of its gameId was
\* already deleted when _onExit was called (getStatus answers stopped, a
\* launch is not refused), and _onExit received the startedAt recorded when
\* that process was spawned.
C3_DeleteBeforeCallback ==
  RanHandleExit(ev) =>
    /\ ev.call.statusAtCall = "stopped"
    /\ ~ev.call.relaunchBlocked
    /\ ev.call.gameId = children[ev.call.process].gameId
    /\ ev.call.startedAt = children[ev.call.process].startedAt

\* A process that ran for some time has exited and its callback was called.
C3_Witness ==
  /\ ev.op = "exit"
  /\ ev.call.startedAt < now
  /\ children[ev.process].exitHandled = 1

\* C4: a launch() for a gameId that has a record fails with AlreadyRunning and
\* changes nothing; a step that observes an exit leaves status stopped; a
\* launch() for a gameId without a record is never refused as AlreadyRunning
\* and, when it succeeds, records the process it spawned.
C4_LaunchStep ==
  /\ (ev'.op = "launch" /\ RegistryHas(registry, ev'.gameId)) =>
        /\ ev'.result = "AlreadyRunning"
        /\ UNCHANGED launchVars
  /\ RanHandleExit(ev') => GetStatus(registry', ev'.gameId) = "stopped"
  /\ (ev'.op = "launch" /\ ~RegistryHas(registry, ev'.gameId)) =>
        /\ ev'.result # "AlreadyRunning"
        /\ ev'.result = "ok" =>
              /\ Len(children') = Len(children) + 1
              /\ GetStatus(registry', ev'.gameId) = "running"
              /\ registry'[ev'.gameId].process = Len(children')

C4_AlreadyRunning == [][C4_LaunchStep]_vars

\* A second launch was refused for a game that had exited and was launched
\* again before.
C4_Witness ==
  /\ ev.op = "launch"
  /\ ev.result = "AlreadyRunning"
  /\ \E h \in DOMAIN children :
       /\ children[h].gameId = ev.gameId
       /\ children[h].state = "exited"
       /\ registry[ev.gameId].process > h

\* C16: a kill() for a gameId without a record fails with NotRunning and
\* changes nothing; any other kill() has sent SIGTERM and nothing harder,
\* and when it returns the record is still there and the status is running.
C16_KillLeavesRecord ==
  ev.op = "kill" =>
    IF ev.result = "NotRunning"
      THEN ~RegistryHas(registry, ev.gameId)
      ELSE /\ \A i \in DOMAIN ev.sent : ev.sent[i] = "SIGTERM"
           /\ Len(ev.sent) <= 1
           /\ RegistryHas(registry, ev.gameId)
           /\ GetStatus(registry, ev.gameId) = "running"

\* C17: after a launch() that failed with RuntimeNotFound or SpawnFailed the
\* gameId has no record and its status is stopped.
C17_FailedLaunchLeavesNoRecord ==
  (ev.op = "launch" /\ ev.result \in {"RuntimeNotFound", "SpawnFailed"}) =>
    /\ ~RegistryHas(registry, ev.gameId)
    /\ GetStatus(registry, ev.gameId) = "stopped"
    /\ GetRunningGame(registry, ev.gameId) = [gameId |-> "undefined"]

\* A launch failed at spawn for a game that ran before, while the other game
\* is running.
C17_Witness ==
  /\ ev.op = "launch"
  /\ ev.result = "SpawnFailed"
  /\ \E h \in DOMAIN children :
       children[h].gameId = ev.gameId /\ children[h].state = "exited"
  /\ \E g \in GameIds : g # ev.gameId /\ RegistryHas(registry, g)

-----------------------------------------------------------------------------
(* Claims about the scan orchestrator, the reconciler and the library *)

\* C5: a scan request handled while status is running is answered 409 with
\* the current progress and changes neither scanState nor the runs in flight
\* nor the published notifications; at most one run is ever in flight.
C5_StartScanStep ==
  /\ Len(runs') <= 1
  /\ (ev'.op = "startScan" /\ scanState.status = "running") =>
        /\ ev'.result = 409
        /\ ev'.progress = scanState.progress
        /\ UNCHANGED <<scanState, runs, wsLog, games>>

C5_SingleFlight == [][C5_StartScanStep]_vars

\* A request was rejected while a run that had reported progress was in flight.
C5_Witness ==
  /\ ev.op = "startScan"
  /\ ev.result = 409
  /\ Len(runs) = 1
  /\ ev.progress.total > 0

\* C6: when no run is in flight any more, status is not running (every
\* accepted run has ended in done or error).
C6_NoRunLeftRunning == runs = << >> => scanState.status # "running"

\* C7: every entry has rootPath NULL if and only if exePath is NULL.
C7_PathsTogether ==
  \A id \in DOMAIN games : (games[id].rootPath = Null) <=> (games[id].exePath = Null)

NoDuplicates(seq) == \A i, j \in DOMAIN seq : seq[i] = seq[j] => i = j

\* C8: in every run the games processed so far each counted as exactly one
\* of added, skipped, relinked, and the ids recorded are as many as added;
\* the reported result sums to the number of scanned games.
C8_OutcomesPartition ==
  /\ \A k \in DOMAIN runs :
       /\ runs[k].added + runs[k].skipped + runs[k].relinked = runs[k].i - 1
       /\ Len(runs[k].newGames) = runs[k].added
  /\ ev.op = "finish" =>
       /\ ev.results.added + ev.results.skipped + ev.results.relinked = ev.results.total
       /\ Len(ev.newGames) = ev.results.added
       /\ scanState.lastResults = ev.results
       /\ ~ev.sendFails => wsLog[Len(wsLog)] = [type |-> "scan_complete"] @@ ev.results
  /\ scanState.lastResults # Null =>
       scanState.lastResults.added + scanState.lastResults.skipped
         + scanState.lastResults.relinked = scanState.lastResults.total

\* A run that re-linked one game and added another has reported its result.
C8_Witness ==
  /\ ev.op = "finish"
  /\ ev.results.relinked = 1
  /\ ev.results.added = 1
  /\ scanState.status = "done"

\* C9: within one run no entry is re-linked twice, and a re-link leaves the
\* entry it updated with non-null rootPath and exePath.
C9_NoDoubleRelink ==
  /\ \A k \in DOMAIN runs : NoDuplicates(runs[k].relinkedIds)
  /\ (ev.op = "relink" /\ ev.id \in DOMAIN games) =>
       /\ games[ev.id].rootPath # Null
       /\ games[ev.id].exePath # Null

\* After an entry was re-linked, a second directory with the same name
\* ignoring case was classified as new.
C9_Witness ==
  /\ ev.op = "classify"
  /\ ev.outcome.kind = "new"
  /\ \E id \in DOMAIN games :
       /\ runs[ev.run].relinkedIds = <<id>>
       /\ games[id].rootPath # Null
       /\ Lower(games[id].name) = Lower(ev.game.name)

\* The unlinked entries a scanned game could still be re-linked to.
UnlinkedMatches(run, game) ==
  {id \in DOMAIN games :
     /\ games[id].rootPath = Null
     /\ Lower(games[id].name) = Lower(game.name)
     /\ \A j \in DOMAIN run.relinkedIds : run.relinkedIds[j] # id}

\* C10: a scanned game whose rootPath is not tracked is classified as new only
\* if no unlinked entry not yet re-linked in this run has its name ignoring
\* case; when there is one, one of them is re-linked.
C10_RelinkBeforeNew ==
  (ev.op = "classify" /\ ev.outcome.kind # "duplicate") =>
     IF UnlinkedMatches(runs[ev.run], ev.game) = {}
       THEN ev.outcome.kind = "new"
       ELSE /\ ev.outcome.kind = "relink"
            /\ ev.outcome.id \in UnlinkedMatches(runs[ev.run], ev.game)

\* C11: once a run over settings.scanPaths has completed, a later run over
\* the same paths with no library request in between reports added = 0,
\* relinked = 0 and skipped = total, and no step of it changes the table.
C11_RescanStepOk ==
  scanState.lastResults # Null =>
    /\ games' = games
    /\ ev'.op = "finish" =>
         /\ ev'.results.added = 0
         /\ ev'.results.relinked = 0
         /\ ev'.results.skipped = ev'.results.total

C11_RescanSkipsAll == [][C11_RescanStepOk]_vars

\* The second of two runs over /a and /b has finished and skipped both games.
C11_Witness ==
  /\ ev.op = "finish"
  /\ opCount.scans = 2
  /\ scanState.status = "done"
  /\ ev.results = [added |-> 0, skipped |-> 2, relinked |-> 0, total |-> 2]

\* C12: when a run has finished, no entry is left unlinked while the run
\* created a new entry for a directory that has the entry's name ignoring
\* case: such a directory restores the unlinked entry itself.
C12_UnlinkedRestored ==
  ev.op = "finish" =>
    \A id \in DOMAIN games :
      games[id].rootPath = Null =>
        \A j \in DOMAIN ev.newGames :
          Lower(ev.newGames[j].name) # Lower(games[id].name)

-----------------------------------------------------------------------------
(* Claims about the scanner *)

\* The paths p[1..k], k = 1..Len(p).
Prefixes(p) == {SubSeq(p, 1, k) : k \in 1..Len(p)}

ScanReturned == result.fn = "scanPaths"

\* C13: no candidate of a reported game is a symbolic link or lies below a
\* symbolic link, and no reported game directory is a symbolic link.
C13_NoSymlinkFollowed ==
  ScanReturned =>
    \A i \in DOMAIN result.results :
      /\ LstatKind(args.disk, result.results[i].rootPath) # "link"
      /\ \A j \in DOMAIN result.results[i].exeCandidates :
           \A q \in Prefixes(result.results[i].exeCandidates[j]) :
             LstatKind(args.disk, q) # "link"

\* The game directories scanPaths examines, and how many of the first n of
\* them it returned as games.
Examined == AllGameDirs(args.disk, args.rootPaths)

ReturnedAmong(n) ==
  Cardinality({m \in 1..n : \E i \in DOMAIN result.results :
                               result.results[i].rootPath = Examined[m]})

OncePerDirectory ==
  /\ Len(result.events) = Len(Examined)
  /\ \A i \in DOMAIN result.events :
       /\ result.events[i].current = Examined[i][Len(Examined[i])]
       /\ result.events[i].total = Len(Examined)

\* C14 as stated: one event per directory examined, all with the same total,
\* and the found of an event counts the games accepted among the directories
\* up to and including its own, so the last found is the number returned.
C14_FoundIncludesCurrent ==
  ScanReturned =>
    /\ OncePerDirectory
    /\ \A i \in DOMAIN result.events : result.events[i].found = ReturnedAmong(i)
    /\ result.events # << >> =>
         result.events[Len(result.events)].found = Len(result.results)

\* C14 amended: one event per directory examined, all with the same total,
\* and the found of an event counts the games accepted among the directories
\* before its own, so the last found is the number returned less the last
\* directory when that one was accepted.
C14_FoundBeforeCurrent ==
  ScanReturned =>
    /\ OncePerDirectory
    /\ \A i \in DOMAIN result.events : result.events[i].found = ReturnedAmong(i - 1)
    /\ result.events # << >> =>
         result.events[Len(result.events)].found =
           ReturnedAmong(Len(Examined) - 1)

\* Two directories were examined and both returned as games.
C14_Witness ==
  /\ ScanReturned
  /\ Len(result.events) = 2
  /\ Len(result.results) = 2
  /\ result.events[2].found = 1

\* What the walker collects in a game directory.
Collected(gameRoot) == CollectExes(args.disk, gameRoot, gameRoot, 0, MAX_EXE_DEPTH, << >>)

\* The directory has a candidate, and a best one scores at least 0.
TopScoreNotNegative(gameRoot) ==
  \E i \in DOMAIN Collected(gameRoot) :
    /\ ScoreExe(Collected(gameRoot)[i], gameRoot[Len(gameRoot)]) >= 0
    /\ \A j \in DOMAIN Collected(gameRoot) :
         ScoreExe(Collected(gameRoot)[j], gameRoot[Len(gameRoot)])
           <= ScoreExe(Collected(gameRoot)[i], gameRoot[Len(gameRoot)])

\* The candidate of the directory that has this absolute path.
CandidateAt(gameRoot, path) ==
  Collected(gameRoot)[CHOOSE i \in DOMAIN Collected(gameRoot) :
                        Collected(gameRoot)[i].absolutePath = path]

\* C15: a directory examined is returned as a game exactly when the walker
\* finds a candidate in it and the best score is at least 0; exePath is the
\* first of exeCandidates, which lists every candidate once, by score from
\* high to low.
C15_AcceptanceRule ==
  ScanReturned =>
    /\ \A m \in DOMAIN Examined :
         (\E i \in DOMAIN result.results : result.results[i].rootPath = Examined[m])
           <=> TopScoreNotNegative(Examined[m])
    /\ \A i \in DOMAIN result.results :
         LET game == result.results[i]
             cands == Collected(game.rootPath)
         IN /\ game.exePath = game.exeCandidates[1]
            /\ Len(game.exeCandidates) = Len(cands)
            /\ \A c \in DOMAIN cands :
                 \E j \in DOMAIN game.exeCandidates :
                   game.exeCandidates[j] = cands[c].absolutePath
            /\ \A j \in 1..(Len(game.exeCandidates) - 1) :
                 ScoreExe(CandidateAt(game.rootPath, game.exeCandidates[j]), game.name)
                   >= ScoreExe(CandidateAt(game.rootPath, game.exeCandidates[j + 1]), game.name)

\* One directory was returned with its candidates in another order than the
\* walker found them, and a directory with a candidate was not returned.
C15_Witness ==
  /\ ScanReturned
  /\ Len(result.results) = 1
  /\ Len(Examined) = 2
  /\ result.results[1].rootPath = Examined[1]
  /\ Collected(Examined[2]) # << >>
  /\ Len(result.results[1].exeCandidates) = 2
  /\ result.results[1].exePath # Collected(Examined[1])[1].absolutePath

-----------------------------------------------------------------------------
(* Claims about the launch environment *)

EnvBuilt == result.fn = "buildProtonEnv"

Overrides == IF "extraEnv" \in DOMAIN args.config THEN args.config.extraEnv ELSE EmptyEnv

\* C18: the built environment has STEAM_COMPAT_CLIENT_INSTALL_PATH when an
\* installation root was supplied; when none was supplied and the overrides
\* do not set the key it is absent, whatever process.env holds; and it is
\* never present with an empty value.
C18_InstallPathOnlyWhenDetected ==
  EnvBuilt =>
    /\ args.steamRoot.found => "STEAM_COMPAT_CLIENT_INSTALL_PATH" \in DOMAIN result.env
    /\ (~args.steamRoot.found /\ "STEAM_COMPAT_CLIENT_INSTALL_PATH" \notin DOMAIN Overrides)
         => "STEAM_COMPAT_CLIENT_INSTALL_PATH" \notin DOMAIN result.env
    /\ "STEAM_COMPAT_CLIENT_INSTALL_PATH" \in DOMAIN result.env
         => result.env["STEAM_COMPAT_CLIENT_INSTALL_PATH"] # ""

\* The value the engine generates for a key, when it generates one.
GeneratedKeys ==
  {"STEAM_COMPAT_DATA_PATH", "STEAM_COMPAT_APP_ID", "PROTON_LOG"}
  \cup (IF args.steamRoot.found THEN {"STEAM_COMPAT_CLIENT_INSTALL_PATH"} ELSE {})

GeneratedValue(k) ==
  CASE k = "STEAM_COMPAT_DATA_PATH" -> args.config.winePrefix
    [] k = "STEAM_COMPAT_APP_ID" ->
         IF "steamAppId" \in DOMAIN args.config THEN args.config.steamAppId ELSE "0"
    [] k = "PROTON_LOG" -> "1"
    [] k = "STEAM_COMPAT_CLIENT_INSTALL_PATH" -> args.steamRoot.path

AmbientKeys == {k \in DOMAIN args.processEnv : args.processEnv[k].defined}

\* C19: the keys of the built environment are those of the overrides, the
\* generated variables and the defined ambient variables; each value is the
\* override if there is one, else the generated value if there is one, else
\* the ambient value; the two required keys are present and every value is a
\* string.
C19_Precedence ==
  EnvBuilt =>
    /\ DOMAIN result.env = (DOMAIN Overrides) \cup GeneratedKeys \cup AmbientKeys
    /\ \A k \in DOMAIN result.env :
         /\ result.env[k] \in STRING
         /\ result.env[k] =
              IF k \in DOMAIN Overrides THEN Overrides[k]
              ELSE IF k \in GeneratedKeys THEN GeneratedValue(k)
              ELSE args.processEnv[k].value
    /\ {"STEAM_COMPAT_DATA_PATH", "STEAM_COMPAT_APP_ID"} \subseteq DOMAIN result.env
    /\ ("steamAppId" \notin DOMAIN args.config /\ "STEAM_COMPAT_APP_ID" \notin DOMAIN Overrides)
         => result.env["STEAM_COMPAT_APP_ID"] = "0"

\* An override won over a generated variable that the ambient environment
\* also sets, and a purely ambient variable was inherited.
C19_Witness ==
  /\ EnvBuilt
  /\ "PROTON_LOG" \in DOMAIN Overrides
  /\ "PROTON_LOG" \in AmbientKeys
  /\ result.env["PROTON_LOG"] = Overrides["PROTON_LOG"]
  /\ result.env["STEAM_COMPAT_APP_ID"] = "0"
  /\ result.env["PATH"] = "/usr/bin"

-----------------------------------------------------------------------------
(* Claims about the executable ranking *)

ScoreReturned == result.fn = "scoreExe"

\* The file name of the candidate without its executable suffix, whatever
\* the letter case of the suffix, normalised.
FileStem(candidate) ==
  LET name == candidate.absolutePath[Len(candidate.absolutePath)]
  IN Normalise(SubSeq(name, 1, Len(name) - Len(ExeSuffix)))

\* The points of a score that do not come from the name similarity.
OtherPoints(candidate) ==
  (IF Depth(candidate.relativePath) <= 1 THEN 20 ELSE 0)
  + (IF candidate.sizeBytes > 1000000 THEN 15 ELSE 0)
  - 50 * PenaltyMatches(ScoredStem(candidate), HEAVY_PENALTY_PATTERNS)
  - 30 * PenaltyMatches(ScoredStem(candidate), LIGHT_PENALTY_PATTERNS)

\* C20: the score holds the 40 points of the name similarity exactly when
\* the normalised file stem equals the normalised reference, or one of the
\* two includes the other and the included one has at least 3 characters.
C20_NameBonusRule ==
  ScoreReturned =>
    LET stem == FileStem(args.candidate)
        ref == Normalise(args.gameDirectoryName)
    IN (result.score = OtherPoints(args.candidate) + 40)
         <=> \/ stem = ref
             \/ (Len(ref) >= 3 /\ Includes(stem, ref))
             \/ (Len(stem) >= 3 /\ Includes(ref, stem))

\* C21: the score is 40 for a similar name, plus 20 when the relative path
\* has at most one separator, plus 15 when the file has more than 1,000,000
\* bytes, minus 50 for every heavy keyword and minus 30 for every light
\* keyword that the normalised file stem contains.
C21_ScoreFormula ==
  ScoreReturned =>
    LET stem == FileStem(args.candidate)
        ref == Normalise(args.gameDirectoryName)
        similar == \/ stem = ref
                   \/ (Len(ref) >= 3 /\ Includes(stem, ref))
                   \/ (Len(stem) >= 3 /\ Includes(ref, stem))
    IN result.score =
         (IF similar THEN 40 ELSE 0)
         + (IF Len(args.candidate.relativePath) - 1 <= 1 THEN 20 ELSE 0)
         + (IF args.candidate.sizeBytes > 1000000 THEN 15 ELSE 0)
         - 50 * PenaltyMatches(stem, HEAVY_PENALTY_PATTERNS)
         - 30 * PenaltyMatches(stem, LIGHT_PENALTY_PATTERNS)

\* The same sum for the files whose suffix is spelled .exe in lower case.
LowerCaseSuffix(candidate) ==
  EndsWith(candidate.absolutePath[Len(candidate.absolutePath)], ExeSuffix)

ScoreFormulaLowerCaseSuffix ==
  (ScoreReturned /\ LowerCaseSuffix(args.candidate)) =>
    LET stem == FileStem(args.candidate)
        ref == Normalise(args.gameDirectoryName)
        similar == \/ stem = ref
                   \/ (Len(ref) >= 3 /\ Includes(stem, ref))
                   \/ (Len(stem) >= 3 /\ Includes(ref, stem))
    IN result.score =
         (IF similar THEN 40 ELSE 0)
         + (IF Len(args.candidate.relativePath) - 1 <= 1 THEN 20 ELSE 0)
         + (IF args.candidate.sizeBytes > 1000000 THEN 15 ELSE 0)
         - 50 * PenaltyMatches(stem, HEAVY_PENALTY_PATTERNS)
         - 30 * PenaltyMatches(stem, LIGHT_PENALTY_PATTERNS)

RankReturned == result.fn = "rankExes"

\* The orderings of the input positions.
Orderings(n) == {p \in [1..n -> 1..n] : \A i, j \in 1..n : p[i] = p[j] => i = j}

\* C22: the output of rank is the input in another order, every element
\* with the score of the scoring function added; the scores do not increase
\* along the output, and elements of equal score keep their input order; an
\* empty input gives an empty output.
C22_RankContract ==
  RankReturned =>
    LET input == args.candidates
        output == result.ranked
        n == Len(input)
    IN /\ Len(output) = n
       /\ \E p \in Orderings(n) :
            /\ \A i \in 1..n :
                 output[i] = input[p[i]] @@
                   [score |-> ScoreExe(input[p[i]], args.gameDirectoryName)]
            /\ \A i, j \in 1..n : i < j =>
                 /\ output[i].score >= output[j].score
                 /\ output[i].score = output[j].score => p[i] < p[j]
       /\ input = << >> => output = << >>

\* A ranking that moved a later candidate to the front and kept two
\* different candidates of equal score behind it.
C22_Witness ==
  /\ RankReturned
  /\ Len(result.ranked) = 3
  /\ result.ranked[1].absolutePath = args.candidates[3].absolutePath
  /\ result.ranked[1].score > result.ranked[2].score
  /\ result.ranked[2].score = result.ranked[3].score
  /\ result.ranked[2].absolutePath # result.ranked[3].absolutePath

-----------------------------------------------------------------------------
(* Claims about the directory walk *)

CollectRunning == result.fn = "collectExes"
CollectReturned == CollectRunning /\ result.returned

\* How many levels a directory lies below the game root of the call.
LevelsBelowRoot(dir) == Len(dir) - Len(args.dir)

\* The number of separators of a relative path.
Separators(relativePath) == Len(relativePath) - 1

\* No directory more than MAX_EXE_DEPTH levels below the game root is
\* listed and no candidate has more than MAX_EXE_DEPTH separators.
DepthBounded ==
  CollectRunning =>
    /\ \A i \in DOMAIN result.listed : LevelsBelowRoot(result.listed[i]) <= MAX_EXE_DEPTH
    /\ \A i \in DOMAIN result.results :
         Separators(result.results[i].relativePath) <= MAX_EXE_DEPTH

\* The step-by-step walk returns what the recursive definition returns.
CollectAgrees ==
  CollectReturned =>
    result.results = CollectExes(args.disk, args.dir, args.dir, 0, args.maxDepth, << >>)

\* C23: collect returns on every directory tree, trees with symbolic-link
\* cycles included, and never lists a directory more than 5 levels below
\* the game root, so every candidate's relative path has at most 5
\* separators.
C23_CollectBoundedAndTerminates == []DepthBounded /\ <>CollectReturned

\* A walk that returned from a tree with a link cycle after it listed a
\* directory 5 levels down and took a candidate with 5 separators there.
C23_Witness ==
  /\ CollectReturned
  /\ \E e \in args.disk : e.kind = "link" /\ e.target = args.dir
  /\ \E i \in DOMAIN result.listed : LevelsBelowRoot(result.listed[i]) = MAX_EXE_DEPTH
  /\ \E i \in DOMAIN result.results :
       Separators(result.results[i].relativePath) = MAX_EXE_DEPTH

-----------------------------------------------------------------------------
(* Claims about roots and directories that cannot be read *)

\* The names in a directory that can be listed; none otherwise.
Names(dir) ==
  IF ReaddirSync(args.disk, dir).throws THEN {}
  ELSE {ReaddirSync(args.disk, dir).entries[i] :
          i \in DOMAIN ReaddirSync(args.disk, dir).entries}

IsDirectoryAt(p) == ~StatSync(args.disk, p).throws /\ StatSync(args.disk, p).isDirectory
IsExeFileAt(p) ==
  /\ ~StatSync(args.disk, p).throws
  /\ StatSync(args.disk, p).isFile
  /\ EndsWith(ToLowerCase(p[Len(p)]), ExeSuffix)

\* The game directories of a root: its child directories, but for the
\* excluded names; a root that is missing or cannot be listed has none.
GameDirsUnder(root) ==
  {p \in {Append(root, e) : e \in Names(root)} :
     IsDirectoryAt(p) /\ ToLowerCase(p[Len(p)]) \notin EXCLUDED_FOLDER_NAMES}

RECURSIVE ReadableBelow(_, _)
\* The directories k levels below a game directory that can be listed and
\* are reached through directories that can be listed.
ReadableBelow(gameRoot, k) ==
  IF k = 0 THEN (IF ReaddirSync(args.disk, gameRoot).throws THEN {} ELSE {gameRoot})
  ELSE {p \in UNION {{Append(d, e) : e \in Names(d)} : d \in ReadableBelow(gameRoot, k - 1)} :
          IsDirectoryAt(p) /\ ~ReaddirSync(args.disk, p).throws}

\* The executables in the readable directories of a game directory.
ExesUnder(gameRoot) ==
  UNION {{p \in {Append(d, e) : e \in Names(d)} : IsExeFileAt(p)} :
           d \in UNION {ReadableBelow(gameRoot, k) : k \in 0..MAX_EXE_DEPTH}}

CandidateOf(gameRoot, p) ==
  [absolutePath |-> p,
   relativePath |-> SubSeq(p, Len(gameRoot) + 1, Len(p)),
   sizeBytes |-> StatSync(args.disk, p).size]

\* The directory holds a game: it has an executable and the best score of
\* its executables is at least 0.
Acceptable(gameRoot) ==
  \E p \in ExesUnder(gameRoot) :
    /\ ScoreExe(CandidateOf(gameRoot, p), gameRoot[Len(gameRoot)]) >= 0
    /\ \A q \in ExesUnder(gameRoot) :
         ScoreExe(CandidateOf(gameRoot, q), gameRoot[Len(gameRoot)])
           <= ScoreExe(CandidateOf(gameRoot, p), gameRoot[Len(gameRoot)])

AcceptableGames ==
  {g \in UNION {GameDirsUnder(args.rootPaths[i]) : i \in DOMAIN args.rootPaths} :
     Acceptable(g)}

\* C24: the scan returns although a root is missing or cannot be listed and
\* although a directory below a game directory cannot be listed; such roots
\* and directories contribute nothing, and the games returned are exactly
\* the acceptable game directories of the other roots, each with the
\* executables of its readable directories.
C24_UnreadableSkipped ==
  ScanReturned =>
    /\ {result.results[i].rootPath : i \in DOMAIN result.results} = AcceptableGames
    /\ \A i \in DOMAIN result.results :
         {result.results[i].exeCandidates[j] : j \in DOMAIN result.results[i].exeCandidates}
           = ExesUnder(result.results[i].rootPath)

\* A scan over a missing root, a root that cannot be listed and a readable
\* root returned a game that has a directory that cannot be listed next to
\* its executables, and skipped a game directory that cannot be listed.
C24_Witness ==
  /\ ScanReturned
  /\ \E i \in DOMAIN args.rootPaths : ~ExistsSync(args.disk, args.rootPaths[i])
  /\ \E i \in DOMAIN args.rootPaths :
       /\ ExistsSync(args.disk, args.rootPaths[i])
       /\ ReaddirSync(args.disk, args.rootPaths[i]).throws
  /\ Len(result.results) = 1
  /\ Len(result.results[1].exeCandidates) = 2
  /\ \E e \in args.disk :
       /\ e.kind = "dir" /\ ~e.readable
       /\ SubSeq(e.path, 1, Len(e.path) - 1) = result.results[1].rootPath
  /\ \E e \in args.disk :
       /\ e.kind = "dir" /\ ~e.readable
       /\ e.path \in GameDirsUnder(ScanRoot)

-----------------------------------------------------------------------------
(* Claims about the enrichment of new games *)

\* A step in which a fetchArtworkForNewGames call ended, well or badly.
EnrichmentEnded(e) == e.op \in {"artworkDone", "artworkFailed"}

C25_EnrichmentStep == EnrichmentEnded(ev') => scanState' = scanState

\* C25: the end of the enrichment of newly added games, success or failure,
\* changes no field of ScanState: a scan that reached done keeps status
\* done, its last result and its last error.
C25_EnrichmentLeavesScanState == [][C25_EnrichmentStep]_vars

\* The enrichment that followed a scan with new games failed and the scan
\* state still shows the scan as done.
C25_Witness ==
  /\ ev.op = "artworkFailed"
  /\ scanState.status = "done"
  /\ scanState.lastResults.added > 0
  /\ scanState.lastError = Null

-----------------------------------------------------------------------------
(* Claims about rejected scan requests *)

C26_StartScanStep ==
  ev'.op = "startScan" =>
    /\ ev'.result = 202 => Len(ev'.paths) > 0
    /\ ev'.result = 400 =>
         /\ Len(ev'.paths) = 0
         /\ scanPathsSetting = << >>
         /\ UNCHANGED <<scanState, wsLog, runs, artwork, games>>

\* C26: a scan request is accepted only with a scan path from the request
\* or the settings; one rejected for lack of scan paths changes no field of
\* ScanState, starts no run and publishes no notification.
C26_NoPathsRejected == [][C26_StartScanStep]_vars

\* A request without scan paths was rejected after an earlier scan had
\* finished, and the result of that scan is still shown.
C26_Witness ==
  /\ ev.op = "startScan"
  /\ ev.result = 400
  /\ scanState.status = "done"
  /\ scanState.lastResults # Null
  /\ scanState.lastResults.total > 0
  /\ wsLog # << >>

-----------------------------------------------------------------------------
(* Claims about the runtime versions *)

SortKeyReturned == result.fn = "protonSortKey"

\* The installations on the disk: the entries of the common folder of a
\* known root whose name contains the marker and which are directories that
\* hold the launch script, by path.
ValidInstallations ==
  {<<STEAM_ROOTS[r], "steamapps", "common", CommonDirNames[i]>> :
     <<r, i>> \in {x \in (DOMAIN STEAM_ROOTS) \X (DOMAIN CommonDirNames) :
                     /\ CommonOf(steamDisk, x[1]).kind = "dir"
                     /\ CommonOf(steamDisk, x[1]).entries[x[2]] = "valid"
                     /\ Includes(ToLowerCase(CommonDirNames[x[2]]), ProtonMarker)}}

\* The first element of a list with this id.
FirstWithId(versions, id) ==
  IF \A i \in DOMAIN versions : versions[i].id # id THEN [found |-> FALSE]
  ELSE [found |-> TRUE,
        version |-> versions[CHOOSE i \in DOMAIN versions :
                               /\ versions[i].id = id
                               /\ \A j \in 1..(i - 1) : versions[j].id # id]]

\* C27: whatever was installed or removed before, a detection returns the
\* valid installations on the disk at the time of the call, each path once,
\* by sort key from high to low; a lookup by id returns the first element
\* of that list with the id, or nothing when there is none.
C27_DetectionReflectsDisk ==
  /\ ev.op = "detect" =>
       /\ {result.versions[i].path : i \in DOMAIN result.versions} = ValidInstallations
       /\ \A i, j \in DOMAIN result.versions :
            result.versions[i].path = result.versions[j].path => i = j
       /\ \A i \in DOMAIN result.versions :
            /\ result.versions[i].id = BuildProtonId(result.versions[i].path[4])
            /\ result.versions[i].label = result.versions[i].path[4]
       /\ \A i, j \in DOMAIN result.versions : i < j =>
            ProtonSortKey(result.versions[i].label) >= ProtonSortKey(result.versions[j].label)
  /\ ev.op = "find" =>
       /\ [found |-> result.found] @@
            (IF result.found THEN [version |-> result.version] ELSE << >>)
            = FirstWithId(DetectProtonVersions(steamDisk), args.id)
       /\ result.found <=>
            \E q \in ValidInstallations : BuildProtonId(q[4]) = args.id

\* After an installation and a removal a detection returned three versions,
\* the newest first, and not the directory that has no launch script.
C27_Witness ==
  /\ ev.op = "detect"
  /\ steamDisk.ops = 2
  /\ Len(result.versions) = 3
  /\ ProtonSortKey(result.versions[1].label) > ProtonSortKey(result.versions[2].label)
  /\ \E r \in DOMAIN STEAM_ROOTS, i \in DOMAIN CommonDirNames :
       /\ CommonOf(steamDisk, r).kind = "dir"
       /\ CommonOf(steamDisk, r).entries[i] = "noscript"

\* C28: the sort key of a name with a version pair is major * 1000 + minor
\* of its first pair, that of a name with a single number is that number
\* times 1000, that of a name without a digit is 0; the key is never
\* negative, and Proton 9.0 sorts above Proton 8.0-5 above Proton 7.0-6.
C28_SortKeyValue ==
  SortKeyReturned =>
    /\ args.parts.shape = "pair" => result.key = args.parts.major * 1000 + args.parts.minor
    /\ args.parts.shape = "single" => result.key = args.parts.major * 1000
    /\ args.parts.shape = "plain" => result.key = 0
    /\ result.key >= 0
    /\ ProtonSortKey(<<"P", "r", "o", "t", "o", "n", " ", "9", ".", "0">>) > ProtonSortKey(<<"P", "r", "o", "t", "o", "n", " ", "8", ".", "0", "-", "5">>)
    /\ ProtonSortKey(<<"P", "r", "o", "t", "o", "n", " ", "8", ".", "0", "-", "5">>) > ProtonSortKey(<<"P", "r", "o", "t", "o", "n", " ", "7", ".", "0", "-", "6">>)

\* The key of GE-Proton9-20 was computed.
C28_Witness ==
  /\ SortKeyReturned
  /\ args.dirName = <<"G", "E", "-", "P", "r", "o", "t", "o", "n", "9", "-", "2", "0">>
  /\ result.key = 9020

-----------------------------------------------------------------------------
(* Claims about the settings update *)

\* The folders a path names, whatever slashes it is written with.
Folders(p) == SelectSeq(p, LAMBDA seg : seg # "")

\* rootPath is one of the configured scan paths or lies below one.
UnderConfigured(rootPath, paths) ==
  \E j \in DOMAIN paths :
    \E n \in 0..Len(Folders(rootPath)) :
      SubSeq(Folders(rootPath), 1, n) = Folders(paths[j])

\* The step that ends a PUT /api/settings with scanPaths: the update of the
\* orphaned rows, or the end of the handler when there is none.
SettingsUpdateEnds ==
  \/ ev'.op = "softUnlink"
  \/ ev'.op = "putSettings" /\ ~unlinkJob'.active

C29_SettingsStep ==
  SettingsUpdateEnds =>
    /\ DOMAIN games' = DOMAIN games
    /\ \A id \in DOMAIN games :
         IF games[id].rootPath # Null /\ ~UnderConfigured(games[id].rootPath, scanPathsSetting')
           THEN games'[id] = [games[id] EXCEPT !.rootPath = Null, !.exePath = Null]
           ELSE games'[id] = games[id]
    /\ \A id \in DOMAIN games' :
         games'[id].rootPath # Null => UnderConfigured(games'[id].rootPath, scanPathsSetting')

\* C29: when a settings update that includes scanPaths has ended, every
\* entry with a rootPath lies under a configured scan path, every entry
\* whose rootPath did not has rootPath and exePath NULL, and no entry was
\* deleted or changed in any other way.
C29_SoftUnlinkContract == [][C29_SettingsStep]_vars

\* A settings update has ended that unlinked one entry and left one that
\* lies under a scan path written with the slash at its end.
C29_Witness ==
  /\ ev.op = "softUnlink"
  /\ scanPathsSetting = <<<<"a", "">>>>
  /\ DOMAIN games = {1, 2}
  /\ games[1].rootPath = <<"a", "foo">>
  /\ games[1].exePath # Null
  /\ games[2].name = "Foo"
  /\ games[2].rootPath = Null
  /\ games[2].exePath = Null

-----------------------------------------------------------------------------
(* Claims about the controller input *)

AxisReturned == result.fn = "axisToAction"

\* The action the value of an axis stands for, by the sign of the value.
BySign(value, negative, positive) == IF value < 0 THEN negative ELSE positive

\* C30: axisToAction returns null for a value whose magnitude is below 0.5;
\* from 0.5 on, the X sticks give navigate-left or navigate-right and the Y
\* sticks navigate-up or navigate-down by the sign of the value, leftTrigger
\* gives trigger-left, rightTrigger gives trigger-right, and every other
\* axis gives null.
C30_AxisMapping ==
  AxisReturned =>
    result.action =
      IF args.value < AXIS_THRESHOLD /\ args.value > 0 - AXIS_THRESHOLD THEN Null
      ELSE CASE args.axisName \in {"leftStickX", "rightStickX"} ->
                  BySign(args.value, "navigate-left", "navigate-right")
             [] args.axisName \in {"leftStickY", "rightStickY"} ->
                  BySign(args.value, "navigate-up", "navigate-down")
             [] args.axisName = "leftTrigger" -> "trigger-left"
             [] args.axisName = "rightTrigger" -> "trigger-right"
             [] OTHER -> Null

\* The same for every axis but the two triggers.
AxisMappingOfSticks ==
  (AxisReturned /\ args.axisName \notin {"leftTrigger", "rightTrigger"}) => C30_AxisMapping

\* A trigger pressed to the threshold or beyond gives null.
TriggerGivesNull ==
  (AxisReturned /\ args.axisName \in {"leftTrigger", "rightTrigger"}) =>
    result.action = Null

-----------------------------------------------------------------------------
(* Claims about the runtime-state directory *)

\* A launch step that did not end in a running game.
LaunchFailed == ev'.op = "launch" /\ ev'.result # "ok"

C39_LaunchStep == LaunchFailed => prefixDirs' = prefixDirs

\* C39: the per-game runtime-state directory is created only by a launch
\* that succeeds; a launch that fails with AlreadyRunning or RuntimeNotFound
\* creates no directory.
C39_DirectoryOnlyOnSuccess == [][C39_LaunchStep]_vars

\* A launch refused with AlreadyRunning creates no directory.
AlreadyRunningCreatesNothing ==
  [][(ev'.op = "launch" /\ ev'.result = "AlreadyRunning") => prefixDirs' = prefixDirs]_vars

-----------------------------------------------------------------------------
(* Claims about the notifications and the status of a scan *)

ScanNotificationTypes == {"scan_started", "scan_progress", "scan_complete", "scan_error"}
TerminalTypes == {"scan_complete", "scan_error"}

\* The scan notifications published since the last accepted request.
ScanLog == SelectSeq(wsLog, LAMBDA m : m.type \in ScanNotificationTypes)

\* One scan_started, then scan_progress only.
StartedThenProgress(log) ==
  /\ Len(log) >= 1
  /\ log[1].type = "scan_started"
  /\ \A i \in 2..Len(log) : log[i].type = "scan_progress"

\* The same, closed by the one terminal notification `last`.
ClosedBy(log, last) ==
  /\ Len(log) >= 2
  /\ StartedThenProgress(SubSeq(log, 1, Len(log) - 1))
  /\ log[Len(log)].type = last

\* C32: the notifications of an accepted scan are one scan_started, then
\* scan_progress notifications, then one terminal notification, which is
\* scan_complete when the status became done and scan_error when it became
\* error; nothing of the run is published after the terminal one.
C32_NotificationOrder ==
  CASE scanState.status = "idle" -> ScanLog = << >>
    [] scanState.status = "running" /\ runs # << >> -> StartedThenProgress(ScanLog)
    [] scanState.status = "running" /\ runs = << >> -> \E t \in TerminalTypes : ClosedBy(ScanLog, t)
    [] scanState.status = "done" -> ClosedBy(ScanLog, "scan_complete")
    [] scanState.status = "error" -> ClosedBy(ScanLog, "scan_error")

\* The same wherever the run of the accepted scan is in flight or has set a
\* terminal status.
NotificationOrderOfRuns ==
  (scanState.status = "running" => runs # << >>) => C32_NotificationOrder

C33_StatusStep ==
  scanState'.status # scanState.status =>
    \/ /\ scanState'.status = "running"
       /\ scanState.status \in {"idle", "done", "error"}
       /\ ev'.op = "startScan"
       /\ ev'.result = 202
    \/ /\ scanState.status = "running"
       /\ scanState'.status \in {"done", "error"}
       /\ ev'.op \in {"finish", "scanError"}

\* C33: the status changes only to running, when a scan request is accepted
\* in status idle, done or error, and from running to done or error, when
\* the run ends; done and error stay until the next accepted request.
C33_StatusTransitions == [][C33_StatusStep]_vars

\* A second request was accepted after a run that ended in error.
C33_Witness ==
  /\ ev.op = "startScan"
  /\ ev.result = 202
  /\ scanState.status = "running"
  /\ opCount.scans = 1
  /\ runs # << >>

\* A step that ends a run.
RunEnds == ev'.op \in {"finish", "scanError"}

\* Two values of a field are the same; null, a number, a string and a
\* record are compared by how they are written.
Same(a, b) == ToString(a) = ToString(b)

C38_ResultStep ==
  /\ (~Same(scanState'.lastResults, scanState.lastResults)
        \/ ~Same(scanState'.lastRun, scanState.lastRun))
       => (RunEnds /\ scanState'.status = "done")
  /\ ~Same(scanState'.lastError, scanState.lastError) =>
       (RunEnds \/ (ev'.op = "startScan" /\ ev'.result = 202))
  /\ RunEnds => (~Same(scanState'.lastError, Null) <=> scanState'.status = "error")

\* C38: lastResults and lastRun are written only by a run that reaches
\* done, so a run that ends in error leaves both as the last run that ended
\* in done left them, and lastError is non-null exactly when the last run
\* that ended did so in error.  The next accepted request clears the prior
\* error when it starts its run; between the end of a run and that, nothing
\* changes lastError.
C38_ResultsOnlyWhenDone == [][C38_ResultStep]_vars

\* A run that ends in error leaves lastResults and lastRun alone.
ErrorKeepsResults ==
  [][(RunEnds /\ scanState'.status = "error") =>
       (/\ Same(scanState'.lastResults, scanState.lastResults)
        /\ Same(scanState'.lastRun, scanState.lastRun))]_vars

\* lastError is set by the run that ends in error and by no other.
LastErrorWhenRunEnds ==
  [][RunEnds => (~Same(scanState'.lastError, Null) <=> scanState'.status = "error")]_vars

\* A run that reached done wrote lastResults and lastRun before it ended.
DoneWritesResults ==
  [][(RunEnds /\ scanState'.status = "done") =>
       (~Same(scanState'.lastResults, Null) /\ ~Same(scanState'.lastRun, Null))]_vars

-----------------------------------------------------------------------------
(* Claims about reconciliation next to other requests *)

C36_RelinkStep == ev'.op = "relink" => games[ev'.id].rootPath = Null

\* C36: a run re-links only entries that are unlinked at the moment of the
\* update: it never overwrites rootPath and exePath of an entry that another
\* request linked while the run was in progress.
C36_RelinkOnlyUnlinked == [][C36_RelinkStep]_vars

\* C37: no two entries have the same rootPath, also after a scan in whose
\* results a directory occurs twice because a scan path was named twice.
C37_RootPathsDistinct ==
  \A i, j \in DOMAIN games :
    (i # j /\ games[i].rootPath # Null) => games[i].rootPath # games[j].rootPath

\* The first run has ended; it came upon a directory a second time, skipped
\* it, and the entry of the directory is in the library.
C37_Witness ==
  /\ ev.op = "finish"
  /\ opCount.scans = 1
  /\ ev.results.skipped >= 1
  /\ ev.results.total = 2
  /\ \E id \in DOMAIN games : games[id].rootPath = <<"a", "foo">>

-----------------------------------------------------------------------------
(* Claims about the gamepad polling *)

\* C31: the polling loop runs only while a gamepad is connected and the tab
\* is visible, and it does not run after stopGamepadPolling until
\* startGamepadPolling is called again.
C31_PollingOnlyWhenNeeded ==
  pad.polling => (pad.pads > 0 /\ ~pad.hidden /\ pad.started)

\* The loop runs only while a gamepad is connected and the tab is visible.
PollingNeedsPadAndVisibleTab == pad.polling => (pad.pads > 0 /\ ~pad.hidden)

-----------------------------------------------------------------------------
(* Claims about the launch and kill routes *)

\* The notifications of one launch: running from its handler, stopped from
\* the exit callback of its process.
RunningBeforeStopped(log) ==
  \A i \in DOMAIN log, k \in DOMAIN log :
     (/\ log[i].status = "stopped"
      /\ log[k].status = "running"
      /\ log[k].process = log[i].process) => k < i

\* No handler or callback is in flight and every process has exited.
Settled ==
  /\ launchApi.jobs = << >>
  /\ \A h \in DOMAIN children : children[h].state = "exited"

LastStatusOf(log, id) ==
  log[MaxOf({i \in DOMAIN log : log[i].gameId = id})].status

RegistryStoppedWhenSettled ==
  Settled => \A id \in Ids : GetStatus(registry, id) = "stopped"

\* The exit callback publishes stopped only for a process whose handleExit ran.
StoppedOnlyAfterExit ==
  \A i \in DOMAIN launchApi.log :
     launchApi.log[i].status = "stopped" =>
       children[launchApi.log[i].process].exitHandled > 0

KillReached ==
  /\ ev'.result = 200
  /\ ev'.killed = <<registry[ev'.gameId].process>>

C35_KillStep ==
  (ev'.op = "apiKill" /\ RegistryHas(registry, ev'.gameId)) => KillReached

\* C35: while the registry holds a record for a game, a kill request for
\* that game calls kill() on the record's process, also after the game's
\* library entry was deleted or soft-unlinked.
C35_KillReachesRegistry == [][C35_KillStep]_vars

\* A kill request whose select found the entry reaches the registry
\* whenever the registry holds a record for the game.
KillReachesListedGame ==
  [][(ev'.op = "apiKill" /\ RegistryHas(registry, ev'.gameId) /\ ev'.found)
       => KillReached]_vars

\* A kill request for a running game whose entry was soft-unlinked reaches
\* the registry.
KillReachesSoftUnlinked ==
  [][(/\ ev'.op = "apiKill"
      /\ RegistryHas(registry, ev'.gameId)
      /\ ev'.gameId \in DOMAIN games
      /\ games[ev'.gameId].rootPath = Null) => KillReached]_vars

\* The soft-unlinked case happens: a kill request answered 200 for an entry
\* without rootPath.
KilledSoftUnlinked ==
  /\ ev.op = "apiKill" /\ ev.result = 200
  /\ ev.gameId \in DOMAIN games
  /\ games[ev.gameId].rootPath = Null

====
